---- MODULE Spec2Model ----
(***************************************************************************)
(* Loop-Underwriter: reconciliation / classification engine.               *)
(*                                                                         *)
(* Components modelled here                                                *)
(*   - verification.py        verify_extraction_math and its helpers,      *)
(*                            auto_retry_extraction_with_verification      *)
(*   - transfer_hunter.py     find_inter_account_transfers and the         *)
(*                            description classifiers it calls,            *)
(*                            calculate_revenue_excluding_transfers        *)
(*   - koncile_integration.py StatementVerifier.verify, extract_with_koncile*)
(*   - webhook_server.py      incoming_email (status of a new deal)        *)
(*                                                                         *)
(* Conventions                                                             *)
(*   - Money is in whole dollars (integers).  A comparison against a       *)
(*     percentage p is cross-multiplied: x / d > p/100 is 100*x > p*d.     *)
(*   - A summary value the extractor reports is a record [kind, val]:      *)
(*     kind "num" (a number), "nc" (the string 'not_computable') or        *)
(*     "none" (key absent / None).                                         *)
(*   - A description is a sequence of lower-case words; "phrase in         *)
(*     description" is contiguous containment of the phrase's words.       *)
(*   - Dates are day numbers.                                              *)
(***************************************************************************)
EXTENDS Integers, Sequences, FiniteSets, TLC

VARIABLES
    verif,      \* one call of verify_extraction_math
    retry,      \* one call of auto_retry_extraction_with_verification
    hunter,     \* one call of find_inter_account_transfers
    hook,       \* one attachment processed by incoming_email
    positions,  \* one call of detect_lender_positions
    norm,       \* validate_and_sanitize_transactions, applied once and again
    server      \* two requests to incoming_email served concurrently

vars == <<verif, retry, hunter, hook, positions, norm, server>>

----------------------------------------------------------------------------
(* Generic helpers                                                         *)

Abs(x) == IF x < 0 THEN -x ELSE x

Max2(a, b) == IF a >= b THEN a ELSE b

Max3(a, b, c) == Max2(Max2(a, b), c)

RECURSIVE SumSeq(_)
SumSeq(s) == IF s = <<>> THEN 0 ELSE Head(s) + SumSeq(Tail(s))

\* [f(s[i]) : i \in 1..Len(s)] as a sequence
MapSeq(s, f(_)) == [i \in 1..Len(s) |-> f(s[i])]

\* the sub-sequence of the elements of s that satisfy p, in order
FilterSeq(s, p(_)) == SelectSeq(s, p)

\* all sequences over S of length 0..n
SeqsUpTo(S, n) == UNION {[1..k -> S] : k \in 0..n}

Num(v) == [kind |-> "num", val |-> v]

NotComputable == [kind |-> "nc", val |-> 0]

Absent == [kind |-> "none", val |-> 0]

----------------------------------------------------------------------------
(* verification.py : helpers                                               *)

\* safe_float: None -> 0.0, a number -> itself, 'not_computable' -> 0.0
safe_float(value) == IF value.kind = "num" THEN value.val ELSE 0

is_not_computable(value) == value.kind = "nc"

\* type field preferentially, amount sign as the fallback
TxnCountsAsCredit(txn) ==
    \/ txn.type = "credit"
    \/ txn.type \notin {"credit", "debit"} /\ txn.amount > 0

TxnCountsAsDebit(txn) ==
    \/ txn.type = "debit"
    \/ txn.type \notin {"credit", "debit"} /\ txn.amount < 0

analyze_transaction_types(transactions) ==
    LET credit_count == Len(FilterSeq(transactions, TxnCountsAsCredit))
        debit_count  == Len(FilterSeq(transactions, TxnCountsAsDebit))
    IN  [credit_count   |-> credit_count,
         debit_count    |-> debit_count,
         total_count    |-> Len(transactions),
         is_debit_only  |-> debit_count > 0 /\ credit_count = 0,
         is_credit_only |-> credit_count > 0 /\ debit_count = 0,
         has_both       |-> credit_count > 0 /\ debit_count > 0]

----------------------------------------------------------------------------
(* transfer_hunter.py : totals read by the verifier                        *)

PaymentCategories == {"payment", "debit", "withdrawal"}

is_payment_category_debit(txn) ==
    LET is_debit == IF txn.type = "debit" THEN TRUE
                    ELSE IF txn.type = "credit" THEN FALSE
                    ELSE txn.amount < 0
    IN  \/ is_debit /\ txn.category \in PaymentCategories
        \/ is_debit /\ txn.lender_payment

\* only positive amounts are added; the type field is not read
RevenueTermSignOnly(txn) ==
    IF txn.amount > 0 /\ ~txn.is_internal_transfer THEN txn.amount ELSE 0

calculate_revenue_excluding_transfers(transactions) ==
    SumSeq(MapSeq(transactions, RevenueTermSignOnly))

PaymentTerm(txn) == IF is_payment_category_debit(txn) THEN Abs(txn.amount) ELSE 0

calculate_payment_total_from_type_field(transactions) ==
    SumSeq(MapSeq(transactions, PaymentTerm))

----------------------------------------------------------------------------
(* verification.py : verify_extraction_math                                *)

\* tolerance = 0.05, as a percentage
TolerancePct == 5

\* VALIDATION 4 is entered only from this many debits on
PositionCheckMinDebits == 5

\* the error_message of a passing verification (Python None)
NoneMsg == <<>>

Err(tag, claimed, computed) == [tag |-> tag, claimed |-> claimed, computed |-> computed]

\* IncomeErrors that also rejects a numeric claim of 0
IncomeErrorsAnyNumeric(info_needed, type_analysis) ==
    LET avg_income    == info_needed.average_monthly_income
        annual_income == info_needed.annual_income
    IN  IF type_analysis.is_debit_only
        THEN (IF safe_float(avg_income) >= 0 /\ avg_income.kind = "num"
              THEN <<Err("data_insufficiency_average_monthly_income",
                         safe_float(avg_income), 0)>>
              ELSE <<>>)
             \o
             (IF safe_float(annual_income) >= 0 /\ annual_income.kind = "num"
              THEN <<Err("data_insufficiency_annual_income",
                         safe_float(annual_income), 0)>>
              ELSE <<>>)
        ELSE <<>>

\* VALIDATION 1: income metrics claimed on debit-only data
IncomeErrors(info_needed, type_analysis) ==
    LET avg_income    == info_needed.average_monthly_income
        annual_income == info_needed.annual_income
    IN  IF type_analysis.is_debit_only
        THEN (IF safe_float(avg_income) > 0 /\ ~is_not_computable(avg_income)
              THEN <<Err("data_insufficiency_average_monthly_income",
                         safe_float(avg_income), 0)>>
              ELSE <<>>)
             \o
             (IF safe_float(annual_income) > 0 /\ ~is_not_computable(annual_income)
              THEN <<Err("data_insufficiency_annual_income",
                         safe_float(annual_income), 0)>>
              ELSE <<>>)
        ELSE <<>>

\* PaymentsErrors with the relative gap taken on the claimed value alone
PaymentsErrorsClaimedDenominator(extracted_payments, calculated_payments) ==
    IF extracted_payments = 0 /\ calculated_payments > 0
    THEN <<Err("payments_reported_zero", extracted_payments, calculated_payments)>>
    ELSE IF /\ extracted_payments > 0
            /\ 100 * Abs(calculated_payments - extracted_payments)
                 > TolerancePct * extracted_payments
         THEN <<Err("payments", extracted_payments, calculated_payments)>>
         ELSE <<>>

\* PaymentsErrors with a $1.00 absolute floor and no special case for 0
PaymentsErrorsWithFloor(extracted_payments, calculated_payments) ==
    IF 100 * Abs(calculated_payments - extracted_payments)
         > Max2(100, TolerancePct * Max2(extracted_payments, calculated_payments))
    THEN <<Err("payments", extracted_payments, calculated_payments)>>
    ELSE <<>>

\* VALIDATION 2: total_monthly_payments against the payment-category debits
PaymentsErrors(extracted_payments, calculated_payments) ==
    IF extracted_payments = 0 /\ calculated_payments > 0
    THEN <<Err("payments_reported_zero", extracted_payments, calculated_payments)>>
    ELSE IF extracted_payments > 0
         THEN LET payments_diff == Abs(calculated_payments - extracted_payments)
                  denominator   == Max3(extracted_payments, calculated_payments, 1)
              IN  IF 100 * payments_diff > TolerancePct * denominator
                  THEN <<Err("payments", extracted_payments, calculated_payments)>>
                  ELSE <<>>
         ELSE <<>>

\* the revenue the claim is compared on: revenues_last_4_months, or
\* average_monthly_income * 4 when that field is 0 / absent
ExtractedRevenue(extracted_data) ==
    LET extracted_avg_income == safe_float(extracted_data.info_needed.average_monthly_income)
        explicit             == safe_float(extracted_data.revenues_last_4_months)
    IN  IF explicit = 0 /\ extracted_avg_income > 0
        THEN extracted_avg_income * 4
        ELSE explicit

\* VALIDATION 3 runs unless the data set is debit-only or the income is
\* marked 'not_computable'
RevenueChecked(extracted_data, type_analysis) ==
    /\ type_analysis.has_both \/ ~type_analysis.is_debit_only
    /\ ~is_not_computable(extracted_data.info_needed.average_monthly_income)

RevenueErrors(extracted_data, type_analysis, revenue_excluding_transfers) ==
    LET extracted_revenue == ExtractedRevenue(extracted_data)
        revenue_diff      == Abs(revenue_excluding_transfers - extracted_revenue)
    IN  IF /\ RevenueChecked(extracted_data, type_analysis)
           /\ extracted_revenue > 0
           /\ 100 * revenue_diff > TolerancePct * extracted_revenue
        THEN <<Err("revenue", extracted_revenue, revenue_excluding_transfers)>>
        ELSE <<>>

\* VALIDATION 4 guard.  The clustering it then runs needs at least
\* PositionCheckMinDebits debits; the transaction lists of this module are
\* shorter, so the guard is evaluated and is always FALSE here.
PositionCheckApplies(extracted_data, type_analysis) ==
    /\ extracted_data.daily_positions = 0
    /\ type_analysis.debit_count >= PositionCheckMinDebits

\* VALIDATION 5
CountErrors(transactions) ==
    IF Len(transactions) < 2
    THEN <<Err("insufficient_transactions", Len(transactions), 2)>>
    ELSE <<>>

verify_extraction_math(extracted_data, transactions) ==
    LET type_analysis       == analyze_transaction_types(transactions)
        calculated_payments == calculate_payment_total_from_type_field(transactions)
        revenue_excluding_transfers ==
            calculate_revenue_excluding_transfers(transactions)
        info_needed         == extracted_data.info_needed
        extracted_payments  == safe_float(info_needed.total_monthly_payments)
        errors ==
            IncomeErrors(info_needed, type_analysis)
            \o PaymentsErrors(extracted_payments, calculated_payments)
            \o RevenueErrors(extracted_data, type_analysis, revenue_excluding_transfers)
            \o CountErrors(transactions)
    IN  IF transactions = <<>>
        THEN [is_valid |-> TRUE, error_message |-> NoneMsg,
              calculated_payments |-> 0, revenue_excluding_transfers |-> 0,
              type_analysis |-> type_analysis, checked |-> FALSE]
        ELSE [is_valid |-> errors = <<>>, error_message |-> errors,
              calculated_payments |-> calculated_payments,
              revenue_excluding_transfers |-> revenue_excluding_transfers,
              type_analysis |-> type_analysis, checked |-> TRUE]

HasError(result, tag) == \E i \in 1..Len(result.error_message) : result.error_message[i].tag = tag

----------------------------------------------------------------------------
(* Inputs of the verifier specification                                    *)

\* longest transaction list handed to the verifier
MaxTxns == 2

Txn(type, amount, category, lender_payment, is_internal_transfer) ==
    [type |-> type, amount |-> amount, category |-> category,
     lender_payment |-> lender_payment, is_internal_transfer |-> is_internal_transfer]

VerifyTxns ==
    { Txn("credit",   100,   "income",  FALSE, FALSE),
      Txn("credit",   100,   "transfer", FALSE, TRUE),
      Txn("credit",   -50,   "income",  FALSE, FALSE),
      Txn("debit",    500,   "other",   FALSE, FALSE),
      Txn("debit",    -1,    "payment", FALSE, FALSE),
      Txn("debit",    11,    "payment", FALSE, FALSE),
      Txn("debit",    -10499, "payment", FALSE, FALSE),
      Txn("debit",    -10501, "payment", FALSE, FALSE),
      Txn("debit",    -10526, "payment", FALSE, FALSE),
      Txn("debit",    -10527, "payment", FALSE, FALSE),
      Txn("unknown",  104,   "other",   FALSE, FALSE),
      Txn("unknown",  -20,   "other",   TRUE,  FALSE) }

ExtractedData(payments, avg_income, annual_income, revenues, daily_positions, txns, error) ==
    [info_needed |-> [total_monthly_payments |-> payments,
                      average_monthly_income |-> avg_income,
                      annual_income          |-> annual_income],
     revenues_last_4_months |-> revenues,
     daily_positions        |-> daily_positions,
     transactions           |-> txns,
     error                  |-> error]

ClaimedPayments == {Num(0), Num(10), Num(10000), Absent}

ClaimedIncome == {Num(0), Num(25), NotComputable}

ClaimedRevenue == {Absent, Num(100), Num(105)}

VerifyInputs ==
    { ExtractedData(p, inc[1], inc[2], rev, 0, <<>>, FALSE) :
        p \in ClaimedPayments, inc \in ClaimedIncome \X ClaimedIncome,
        rev \in ClaimedRevenue }

Idle == [pc |-> "idle"]

\* no verification has run yet
NoResult ==
    [is_valid |-> FALSE, error_message |-> NoneMsg,
     calculated_payments |-> 0, revenue_excluding_transfers |-> 0,
     type_analysis |-> analyze_transaction_types(<<>>), checked |-> FALSE]

VerifyInit ==
    /\ verif \in { [pc |-> "input", extracted_data |-> d, transactions |-> t,
                    result |-> NoResult] :
                   d \in VerifyInputs, t \in SeqsUpTo(VerifyTxns, MaxTxns) }
    /\ retry = Idle
    /\ hunter = Idle
    /\ hook = Idle
    /\ positions = Idle
    /\ norm = Idle
    /\ server = Idle

\* one call verify_extraction_math(extracted_data, transactions)
VerifyExtractionMath ==
    /\ verif.pc = "input"
    /\ verif' = [verif EXCEPT !.pc = "done",
                              !.result = verify_extraction_math(verif.extracted_data,
                                                                verif.transactions)]
    /\ UNCHANGED <<retry, hunter, hook, positions, norm, server>>


VerifyNext == VerifyExtractionMath

SpecVerify == VerifyInit /\ [][VerifyNext]_vars

----------------------------------------------------------------------------
(* openai_integration.py : what extract_financial_data_from_pdf returns    *)

\* get_default_extraction_result() with the "error" entry the handlers add
DefaultExtractionError ==
    ExtractedData(Num(0), NotComputable, NotComputable, Absent, 0, <<>>, TRUE)

StatementTxns ==
    << Txn("credit", 100, "income",  FALSE, FALSE),
       Txn("debit",  -20, "payment", FALSE, FALSE) >>

\* the results the extractor can come back with on one call: the structured
\* error result of its exception handlers, a result whose summary agrees
\* with its transactions, two whose summaries do not, one that lists a
\* single transaction, and a result that lists no transaction at all
ExtractorResults ==
    { [extracted_data |-> DefaultExtractionError, reasoning_log |-> <<"Error">>],
      [extracted_data |-> ExtractedData(Num(20), Num(25), Num(300), Num(100), 0,
                                        StatementTxns, FALSE),
       reasoning_log |-> <<"reasoning">>],
      [extracted_data |-> ExtractedData(Num(0), Num(25), Num(300), Num(100), 0,
                                        StatementTxns, FALSE),
       reasoning_log |-> <<"reasoning">>],
      [extracted_data |-> ExtractedData(Num(20), Num(25), Num(300), Num(500), 0,
                                        StatementTxns, FALSE),
       reasoning_log |-> <<"reasoning">>],
      [extracted_data |-> ExtractedData(Num(20), NotComputable, NotComputable, Absent, 0,
                                        <<Txn("debit", -20, "payment", FALSE, FALSE)>>,
                                        FALSE),
       reasoning_log |-> <<"reasoning">>],
      [extracted_data |-> ExtractedData(Num(0), NotComputable, NotComputable, Absent, 0,
                                        <<>>, FALSE),
       reasoning_log |-> <<"reasoning">>] }

----------------------------------------------------------------------------
(* verification.py : auto_retry_extraction_with_verification               *)

\* largest max_retries the caller passes (the default is 2)
MaxRetries == 2

\* extracted_data: Dict = {} before the first attempt
EmptyDict == ExtractedData(Absent, Absent, Absent, Absent, 0, <<>>, FALSE)

RetryInit ==
    /\ retry \in { [pc |-> "loop", max_retries |-> m, retry_count |-> 0,
                    error_feedback |-> NoneMsg, final_status |-> "Pending Approval",
                    extracted_data |-> EmptyDict, reasoning_log |-> <<>>,
                    calls |-> 0, feedback_args |-> <<>>, verdicts |-> <<>>,
                    messages |-> <<>>] : m \in -1..MaxRetries }
    /\ verif = Idle
    /\ hunter = Idle
    /\ hook = Idle
    /\ positions = Idle
    /\ norm = Idle
    /\ server = Idle

\* while retry_count <= max_retries
LoopCondition(r) == r.retry_count <= r.max_retries

\* the body with "if retry_count <= max_retries + 1" in the failure branch
LoopBodyBudgetOffByOne(r, out) ==
    LET v == verify_extraction_math(out.extracted_data, out.extracted_data.transactions)
        called == [r EXCEPT !.extracted_data = out.extracted_data,
                            !.reasoning_log = out.reasoning_log,
                            !.calls = @ + 1,
                            !.feedback_args = Append(@, r.error_feedback),
                            !.verdicts = Append(@, v.is_valid),
                            !.messages = Append(@, v.error_message)]
    IN  IF v.is_valid
        THEN [called EXCEPT !.final_status = "Pending Approval", !.pc = "done"]
        ELSE IF r.retry_count + 1 <= r.max_retries + 1
             THEN [called EXCEPT !.retry_count = @ + 1,
                                 !.error_feedback = v.error_message,
                                 !.reasoning_log = @ \o <<"[RETRY]">>,
                                 !.pc = IF r.retry_count + 1 <= r.max_retries
                                        THEN "loop" ELSE "done"]
             ELSE [called EXCEPT !.retry_count = @ + 1,
                                 !.final_status = "Needs Human Review",
                                 !.reasoning_log = @ \o <<"[FINAL]", "Final error">>,
                                 !.pc = "done"]

\* the body without the break of the passing branch
LoopBodyNoBreakOnValid(r, out) ==
    LET v == verify_extraction_math(out.extracted_data, out.extracted_data.transactions)
        called == [r EXCEPT !.extracted_data = out.extracted_data,
                            !.reasoning_log = out.reasoning_log,
                            !.calls = @ + 1,
                            !.feedback_args = Append(@, r.error_feedback),
                            !.verdicts = Append(@, v.is_valid),
                            !.messages = Append(@, v.error_message)]
    IN  IF v.is_valid
        THEN [called EXCEPT !.final_status = "Pending Approval",
                            !.retry_count = @ + 1,
                            !.pc = IF r.retry_count + 1 <= r.max_retries
                                   THEN "loop" ELSE "done"]
        ELSE IF r.retry_count + 1 <= r.max_retries
             THEN [called EXCEPT !.retry_count = @ + 1,
                                 !.error_feedback = v.error_message,
                                 !.reasoning_log = @ \o <<"[RETRY]">>]
             ELSE [called EXCEPT !.retry_count = @ + 1,
                                 !.final_status = "Needs Human Review",
                                 !.reasoning_log = @ \o <<"[FINAL]", "Final error">>,
                                 !.pc = "done"]

\* the body with the feedback of the first failure kept for every retry
LoopBodyKeepsFirstFeedback(r, out) ==
    LET v == verify_extraction_math(out.extracted_data, out.extracted_data.transactions)
        called == [r EXCEPT !.extracted_data = out.extracted_data,
                            !.reasoning_log = out.reasoning_log,
                            !.calls = @ + 1,
                            !.feedback_args = Append(@, r.error_feedback),
                            !.verdicts = Append(@, v.is_valid),
                            !.messages = Append(@, v.error_message)]
    IN  IF v.is_valid
        THEN [called EXCEPT !.final_status = "Pending Approval", !.pc = "done"]
        ELSE IF r.retry_count + 1 <= r.max_retries
             THEN [called EXCEPT !.retry_count = @ + 1,
                                 !.error_feedback = IF r.error_feedback = NoneMsg
                                                    THEN v.error_message
                                                    ELSE r.error_feedback,
                                 !.reasoning_log = @ \o <<"[RETRY]">>]
             ELSE [called EXCEPT !.retry_count = @ + 1,
                                 !.final_status = "Needs Human Review",
                                 !.reasoning_log = @ \o <<"[FINAL]", "Final error">>,
                                 !.pc = "done"]

\* one iteration of the while loop: the extraction call (which returned
\* out), the verification of its result, and the bookkeeping that follows.
\* pc = "done" is the return statement, reached through either break.
LoopBody(r, out) ==
    LET v == verify_extraction_math(out.extracted_data, out.extracted_data.transactions)
        called == [r EXCEPT !.extracted_data = out.extracted_data,
                            !.reasoning_log = out.reasoning_log,
                            !.calls = @ + 1,
                            !.feedback_args = Append(@, r.error_feedback),
                            !.verdicts = Append(@, v.is_valid),
                            !.messages = Append(@, v.error_message)]
    IN  IF v.is_valid
        THEN [called EXCEPT !.final_status = "Pending Approval", !.pc = "done"]
        ELSE IF r.retry_count + 1 <= r.max_retries
             THEN [called EXCEPT !.retry_count = @ + 1,
                                 !.error_feedback = v.error_message,
                                 !.reasoning_log = @ \o <<"[RETRY]">>]
             ELSE [called EXCEPT !.retry_count = @ + 1,
                                 !.final_status = "Needs Human Review",
                                 !.reasoning_log = @ \o <<"[FINAL]", "Final error">>,
                                 !.pc = "done"]

RetryAttempt ==
    /\ retry.pc = "loop"
    /\ LoopCondition(retry)
    /\ \E out \in ExtractorResults : retry' = LoopBody(retry, out)
    /\ UNCHANGED <<verif, hunter, hook, positions, norm, server>>

\* the loop condition is false on entry (max_retries < 0): fall through to
\* the return statement
RetryLoopExit ==
    /\ retry.pc = "loop"
    /\ ~LoopCondition(retry)
    /\ retry' = [retry EXCEPT !.pc = "done"]
    /\ UNCHANGED <<verif, hunter, hook, positions, norm, server>>

RetryNext == RetryAttempt \/ RetryLoopExit

SpecRetry == RetryInit /\ [][RetryNext]_vars

----------------------------------------------------------------------------
(* koncile_integration.py : StatementVerifier                              *)
(* A transaction type / description is the set of the keywords and         *)
(* phrases the (lower-cased) string contains.                              *)

\* TOLERANCE_PERCENT = 0.01, as a percentage
TolerancePercent == 1

\* TOLERANCE_ABSOLUTE = 1.00
ToleranceAbsolute == 1

\* a dollar gap above this is severity 'high'
HighSeverityGap == 100

_amounts_match(amount1, amount2) ==
    IF amount2 = 0
    THEN Abs(amount1) <= ToleranceAbsolute
    ELSE \/ Abs(amount1 - amount2) <= ToleranceAbsolute
         \/ 100 * Abs(amount1 - amount2) <= TolerancePercent * Abs(amount2)

_is_deposit(txn) == txn.type \cap {"deposit", "credit", "addition"} # {}

_is_check(txn) == "check" \in txn.type \/ "check paid" \in txn.description

_is_fee(txn) ==
    \/ "fee" \in txn.type
    \/ "service fee" \in txn.description
    \/ "monthly fee" \in txn.description

_is_withdrawal(txn) ==
    /\ ~(_is_check(txn) \/ _is_fee(txn))
    /\ txn.type \cap {"withdrawal", "debit", "ach", "electronic"} # {}

AbsAmount(txn) == Abs(txn.amount)

Discrepancy(field, summary_value, calculated_value, severity) ==
    [field |-> field, summary_value |-> summary_value,
     calculated_value |-> calculated_value,
     difference |-> calculated_value - summary_value, severity |-> severity]

\* "high" above the $100 gap, "medium" otherwise
GapSeverity(diff) == IF Abs(diff) > HighSeverityGap THEN "high" ELSE "medium"

CountBySeverity(discrepancies, severity) ==
    Cardinality({i \in 1..Len(discrepancies) : discrepancies[i].severity = severity})

\* a score of 1.0 minus a penalty for every discrepancy: 0.15 for a high
\* one, 0.10 for a medium one, floored at 0
ConfidencePenaltyOnBothCounts(discrepancies) ==
    Max2(0, 100 - 15 * CountBySeverity(discrepancies, "high")
                - 10 * CountBySeverity(discrepancies, "medium"))

\* confidence_score in hundredths
Confidence(discrepancies) ==
    LET high_severity   == CountBySeverity(discrepancies, "high")
        medium_severity == CountBySeverity(discrepancies, "medium")
    IN  IF high_severity > 0 THEN Max2(0, 50 - high_severity * 15)
        ELSE IF medium_severity > 0 THEN Max2(50, 90 - medium_severity * 10)
        ELSE 100

VerificationResult(is_valid, discrepancies, confidence_score, warnings) ==
    [is_valid |-> is_valid, discrepancies |-> discrepancies,
     confidence_score |-> confidence_score, warnings |-> warnings]

StatementVerifier_verify(summary, transactions) ==
    LET deposits    == FilterSeq(transactions, _is_deposit)
        withdrawals == FilterSeq(transactions, _is_withdrawal)
        checks      == FilterSeq(transactions, _is_check)
        calc_deposits_total    == SumSeq(MapSeq(deposits, AbsAmount))
        calc_withdrawals_total == SumSeq(MapSeq(withdrawals, AbsAmount))
        calc_checks_total      == SumSeq(MapSeq(checks, AbsAmount))
        expected_ending ==
            summary.beginning_balance + summary.total_deposits
              - summary.total_withdrawals - summary.total_checks - summary.total_fees
        discrepancies ==
            (IF ~_amounts_match(calc_deposits_total, summary.total_deposits)
             THEN <<Discrepancy("Total Deposits", summary.total_deposits,
                                calc_deposits_total,
                                GapSeverity(calc_deposits_total - summary.total_deposits))>>
             ELSE <<>>)
            \o
            (IF /\ Len(deposits) # summary.total_deposits_count
                /\ summary.total_deposits_count > 0
             THEN <<Discrepancy("Deposits Count", summary.total_deposits_count,
                                Len(deposits), "medium")>>
             ELSE <<>>)
            \o
            (IF ~_amounts_match(calc_withdrawals_total, summary.total_withdrawals)
             THEN <<Discrepancy("Total Withdrawals", summary.total_withdrawals,
                                calc_withdrawals_total,
                                GapSeverity(calc_withdrawals_total
                                              - summary.total_withdrawals))>>
             ELSE <<>>)
            \o
            (IF ~_amounts_match(calc_checks_total, summary.total_checks)
             THEN <<Discrepancy("Total Checks", summary.total_checks,
                                calc_checks_total, "medium")>>
             ELSE <<>>)
        warnings ==
            IF /\ summary.beginning_balance > 0
               /\ summary.ending_balance > 0
               /\ ~_amounts_match(expected_ending, summary.ending_balance)
            THEN <<"Balance calculation check">>
            ELSE <<>>
    IN  IF transactions = <<>>
        THEN VerificationResult(
                 FALSE,
                 <<Discrepancy("Transaction Count",
                               summary.total_deposits_count
                                 + summary.total_withdrawals_count,
                               0, "high")>>,
                 0, <<"No transactions extracted - verification failed">>)
        ELSE VerificationResult(discrepancies = <<>>, discrepancies,
                                Confidence(discrepancies), warnings)

----------------------------------------------------------------------------
(* koncile_integration.py : extract_with_koncile, as seen by its caller    *)

\* the error result with is_valid computed as "no discrepancies"
KoncileErrorResultValidIfEmpty(warning) ==
    [extracted_data |-> [error |-> TRUE, transactions |-> <<>>],
     verification   |-> VerificationResult(TRUE, <<>>, 0, <<warning>>)]

\* every early return and exception handler: an 'error' entry, no
\* transactions, and a VerificationResult built in place
KoncileErrorResult(warning) ==
    [extracted_data |-> [error |-> TRUE, transactions |-> <<>>],
     verification   |-> VerificationResult(FALSE, <<>>, 0, <<warning>>)]

KoncileFailures ==
    { "Koncile API not configured", "Failed to get task_id from Koncile",
      "Koncile extraction failed with status", "API error", "Error" }

\* the task completed: parse, verify, assemble extracted_data
KoncileCompleted(summary, transactions) ==
    [extracted_data |-> [error |-> FALSE, transactions |-> transactions],
     verification   |-> StatementVerifier_verify(summary, transactions)]

----------------------------------------------------------------------------
(* webhook_server.py : incoming_email, one new (non-duplicate) attachment  *)

\* confidence (hundredths) from which an invalid verification is still
\* given 'Pending Approval'
ApprovalConfidence == 70

\* the status with "elif confidence_score >= 0.7" left out
DealStatusValidOnly(extracted_data, verification_result) ==
    IF extracted_data.error THEN "Extraction Failed"
    ELSE IF verification_result.is_valid THEN "Pending Approval"
    ELSE "Needs Human Review"

DealStatus(extracted_data, verification_result) ==
    IF extracted_data.error THEN "Extraction Failed"
    ELSE IF verification_result.is_valid THEN "Pending Approval"
    ELSE IF verification_result.confidence_score >= ApprovalConfidence
         THEN "Pending Approval"
    ELSE "Needs Human Review"

\* longest Koncile transaction list
MaxKoncileTxns == 2

KTxn(type, description, amount) ==
    [type |-> type, description |-> description, amount |-> amount]

KoncileTxns ==
    { KTxn({"deposit"}, {}, 100),
      KTxn({"deposit"}, {}, 150),
      KTxn({"ach", "credit"}, {}, 300),
      KTxn({"withdrawal"}, {}, -50),
      KTxn({"check"}, {}, -130),
      KTxn({"debit"}, {"service fee"}, -5) }

Summary(deposits, deposits_count, withdrawals, checks, beginning) ==
    [beginning_balance |-> beginning, ending_balance |-> 100,
     total_deposits |-> deposits, total_deposits_count |-> deposits_count,
     total_withdrawals |-> withdrawals, total_withdrawals_count |-> 1,
     total_checks |-> checks, total_checks_count |-> 0,
     total_fees |-> 0, total_fees_count |-> 0]

Summaries ==
    { Summary(d, dc, w, c, b) :
        d \in {0, 100, 400}, dc \in {0, 1, 2}, w \in {0, 50}, c \in {0, 130}, b \in {0, 50} }

NoVerification == VerificationResult(FALSE, <<>>, 0, <<>>)

HookInit ==
    /\ hook \in { [pc |-> "received", summary |-> sm, transactions |-> t,
                   extracted_data |-> [error |-> FALSE, transactions |-> <<>>],
                   verification_result |-> NoVerification,
                   final_status |-> "Processing"] :
                  sm \in Summaries, t \in SeqsUpTo(KoncileTxns, MaxKoncileTxns) }
    /\ verif = Idle
    /\ retry = Idle
    /\ hunter = Idle
    /\ positions = Idle
    /\ norm = Idle
    /\ server = Idle

\* extract_with_koncile returns through an early return or an exception handler
KoncileFails ==
    /\ hook.pc = "received"
    /\ \E w \in KoncileFailures :
         LET r == KoncileErrorResult(w)
         IN  hook' = [hook EXCEPT !.pc = "extracted",
                                  !.extracted_data = r.extracted_data,
                                  !.verification_result = r.verification]
    /\ UNCHANGED <<verif, retry, hunter, positions, norm, server>>

\* extract_with_koncile returns the parsed and verified statement
KoncileExtracts ==
    /\ hook.pc = "received"
    /\ LET r == KoncileCompleted(hook.summary, hook.transactions)
       IN  hook' = [hook EXCEPT !.pc = "extracted",
                                !.extracted_data = r.extracted_data,
                                !.verification_result = r.verification]
    /\ UNCHANGED <<verif, retry, hunter, positions, norm, server>>

\* the rest of the handler: the deal's status is set and committed
SetDealStatus ==
    /\ hook.pc = "extracted"
    /\ hook' = [hook EXCEPT !.pc = "done",
                            !.final_status = DealStatus(hook.extracted_data,
                                                        hook.verification_result)]
    /\ UNCHANGED <<verif, retry, hunter, positions, norm, server>>

HookNext == KoncileFails \/ KoncileExtracts \/ SetDealStatus

SpecWebhook == HookInit /\ [][HookNext]_vars

----------------------------------------------------------------------------
(* koncile_integration.py : extract_with_koncile, the polling loop         *)
(* Time is counted in seconds since start_time.  One round of the loop     *)
(* sleeps, asks for the task's results and reads the status; the request   *)
(* answers after some latency or raises.                                   *)

\* time.sleep(5)
SleepSeconds == 5

\* largest max_poll_seconds
MaxPollSeconds == 12

\* seconds a request for the task's results can take
Latencies == {0, 2}

\* results.get('status', 'unknown')
TaskStatuses == {"IN PROGRESS", "DONE", "DUPLICATE", "FAILED", "unknown"}

CompletedStatuses == {"DONE", "done", "completed", "DUPLICATE"}

\* the statements the task can hold
PolledSummaries == {Summary(100, 1, 50, 0, 50), Summary(400, 2, 0, 130, 0)}

PolledTxnLists ==
    { <<>>, <<KTxn({"deposit"}, {}, 100), KTxn({"withdrawal"}, {}, -50)>> }

\* the exceptions a round can raise, by the warning of their handler:
\* requests.exceptions.RequestException and any other Exception
PollExceptions == {"API error", "Error"}

\* the while condition without the test of the time
KeepsPollingWhileInProgress(h) == h.status = "IN PROGRESS"

\* the while condition
KeepsPolling(h) == h.status = "IN PROGRESS" /\ h.elapsed < h.max_poll_seconds

\* upload successful, task_id known: status = 'IN PROGRESS', results = None
PollingInit ==
    /\ hook \in { [pc |-> "polling", max_poll_seconds |-> m, elapsed |-> 0,
                   status |-> "IN PROGRESS", results |-> FALSE, poll_count |-> 0,
                   summary |-> sm, transactions |-> t,
                   extracted_data |-> [error |-> FALSE, transactions |-> <<>>],
                   verification_result |-> NoVerification] :
                  m \in 0..MaxPollSeconds, sm \in PolledSummaries, t \in PolledTxnLists }
    /\ verif = Idle
    /\ retry = Idle
    /\ hunter = Idle
    /\ positions = Idle
    /\ norm = Idle
    /\ server = Idle

\* one round of the loop: sleep, get_task_results, read the status
Poll ==
    /\ hook.pc = "polling"
    /\ KeepsPolling(hook)
    /\ \E latency \in Latencies, status \in TaskStatuses :
          hook' = [hook EXCEPT !.elapsed = hook.elapsed + SleepSeconds + latency,
                               !.poll_count = hook.poll_count + 1,
                               !.results = TRUE,
                               !.status = status]
    /\ UNCHANGED <<verif, retry, hunter, positions, norm, server>>

\* a round in which get_task_results or results.get raises: the handler
\* returns the error result
PollRaises ==
    /\ hook.pc = "polling"
    /\ KeepsPolling(hook)
    /\ \E latency \in Latencies, w \in PollExceptions :
          LET r == KoncileErrorResult(w)
          IN  hook' = [hook EXCEPT !.pc = "returned",
                                   !.elapsed = hook.elapsed + SleepSeconds + latency,
                                   !.poll_count = hook.poll_count + 1,
                                   !.extracted_data = r.extracted_data,
                                   !.verification_result = r.verification]
    /\ UNCHANGED <<verif, retry, hunter, positions, norm, server>>

\* the loop is left with a status that is not a completed one
ReturnIncomplete ==
    /\ hook.pc = "polling"
    /\ ~KeepsPolling(hook)
    /\ hook.status \notin CompletedStatuses
    /\ LET r == KoncileErrorResult("Koncile extraction failed with status")
       IN  hook' = [hook EXCEPT !.pc = "returned",
                                !.extracted_data = r.extracted_data,
                                !.verification_result = r.verification]
    /\ UNCHANGED <<verif, retry, hunter, positions, norm, server>>

\* the loop is left with a completed status: parse, verify, return
ReturnCompleted ==
    /\ hook.pc = "polling"
    /\ ~KeepsPolling(hook)
    /\ hook.status \in CompletedStatuses
    /\ LET r == KoncileCompleted(hook.summary, hook.transactions)
       IN  hook' = [hook EXCEPT !.pc = "returned",
                                !.extracted_data = r.extracted_data,
                                !.verification_result = r.verification]
    /\ UNCHANGED <<verif, retry, hunter, positions, norm, server>>

\* parsing the completed task's fields raises
CompletedRaises ==
    /\ hook.pc = "polling"
    /\ ~KeepsPolling(hook)
    /\ hook.status \in CompletedStatuses
    /\ LET r == KoncileErrorResult("Error")
       IN  hook' = [hook EXCEPT !.pc = "returned",
                                !.extracted_data = r.extracted_data,
                                !.verification_result = r.verification]
    /\ UNCHANGED <<verif, retry, hunter, positions, norm, server>>

PollingNext == Poll \/ PollRaises \/ ReturnIncomplete \/ ReturnCompleted \/ CompletedRaises

\* the interpreter runs the function on: a step that can be taken is taken
SpecPolling == PollingInit /\ [][PollingNext]_vars /\ WF_vars(PollingNext)

----------------------------------------------------------------------------
(* transfer_hunter.py : description classifiers                            *)

\* the words of phrase occur in description, contiguously and in order
ContainsPhrase(description, phrase) ==
    \E k \in 0..(Len(description) - Len(phrase)) :
        \A j \in 1..Len(phrase) : description[k + j] = phrase[j]

\* four-digit account suffixes that can follow "online transfer from chk"
Last4Tokens == {"1234", "9999"}

ExplicitPatterns ==
    { <<"intra-bank", "transfer">>, <<"intrabank", "transfer">>,
      <<"transfer", "between", "accounts">>, <<"internal", "transfer">>,
      <<"account", "to", "account", "transfer">>, <<"transfer", "to", "savings">>,
      <<"transfer", "from", "savings">>, <<"funds", "transfer", "internal">> }

\* known_account_numbers is the set of the last four digits of the
\* merchant's accounts
is_explicit_internal_transfer(description, known_account_numbers) ==
    /\ description # <<>>
    /\ \/ \E p \in ExplicitPatterns : ContainsPhrase(description, p)
       \/ \E last_4 \in Last4Tokens :
            /\ ContainsPhrase(description, <<"online", "transfer", "from", "chk", last_4>>)
            /\ last_4 \in known_account_numbers

\* words of one or two characters (dropped by "len(w) > 2")
ShortWords == {"to", "of", "in", "a"}

BusinessWords == {"inc", "llc", "corp", "company", "enterprises", "group", "services"}

Words(name) == {name[k] : k \in 1..Len(name)} \ ShortWords

is_related_entity_revenue(sender_name, merchant_name) ==
    /\ sender_name # <<>>
    /\ merchant_name # <<>>
    /\ sender_name # merchant_name
    /\ Words(sender_name) # {}
    /\ Words(merchant_name) # {}
    /\ ((Words(sender_name) \cap Words(merchant_name)) \ BusinessWords) # {}

KNOWN_LENDER_KEYWORDS ==
    { <<"financing">>, <<"capital">>, <<"funding">>, <<"advance">>, <<"lending">>,
      <<"merchant">>, <<"mca">>, <<"loan">>, <<"credit">>, <<"payoff">>, <<"factor">>,
      <<"business", "funding">>, <<"cash", "advance">>, <<"working", "capital">> }

\* txn_type "" stands for a missing / empty type
is_known_lender_payment(description, amount, txn_type) ==
    /\ description # <<>>
    /\ IF txn_type # "" THEN txn_type = "debit" ELSE amount < 0
    /\ \E kw \in KNOWN_LENDER_KEYWORDS : ContainsPhrase(description, kw)

----------------------------------------------------------------------------
(* transfer_hunter.py : find_inter_account_transfers                       *)

\* window_days (default)
WindowDays == 2

\* matched_transfer_id = None
NoneId == 0

\* df[...] = False / None : the flag columns a call starts from
InitFlags(txn) ==
    [id |-> txn.id, amount |-> txn.amount, transaction_date |-> txn.transaction_date,
     source_account_id |-> txn.source_account_id, description |-> txn.description,
     type |-> txn.type,
     is_internal_transfer |-> FALSE, matched_transfer_id |-> NoneId,
     is_lender_payment |-> FALSE, transfer_reason |-> "None"]

Bijections(n) == {f \in [1..n -> 1..n] : \A a, b \in 1..n : f[a] = f[b] => a = b}

\* df.sort_values('transaction_date'): every order with non-decreasing
\* dates (the sort is not stable, rows of one date come in any order)
SortedByDate(df) ==
    { [k \in 1..Len(df) |-> df[f[k]]] : f \in
        {g \in Bijections(Len(df)) :
            \A a, b \in 1..Len(df) :
                a < b => df[g[a]].transaction_date <= df[g[b]].transaction_date} }

\* STEP 1 on one row, the explicit-description test left out
Step1RowLenderOnly(row, known_account_numbers) ==
    [row EXCEPT !.is_lender_payment =
                    is_known_lender_payment(row.description, row.amount, row.type)]

\* STEP 1 on one row
Step1Row(row, known_account_numbers) ==
    LET explicit == is_explicit_internal_transfer(row.description, known_account_numbers)
        lender   == is_known_lender_payment(row.description, row.amount, row.type)
    IN  [row EXCEPT !.is_internal_transfer = explicit,
                    !.transfer_reason = IF explicit THEN "explicit_transfer_description"
                                        ELSE "None",
                    !.is_lender_payment = lender]

\* matched_ids after STEP 1
Step1MatchedIds(df, known_account_numbers) ==
    {df[k].id : k \in {j \in 1..Len(df) :
        is_explicit_internal_transfer(df[j].description, known_account_numbers)}}

\* the candidate filter with the matched_ids test left out
MatchesIgnoringMatchedIds(df, matched_ids, row) ==
    {k \in 1..Len(df) :
        /\ df[k].id # row.id
        /\ df[k].source_account_id # row.source_account_id
        /\ 100 * df[k].amount >= 99 * (-row.amount)
        /\ 100 * df[k].amount <= 101 * (-row.amount)
        /\ df[k].transaction_date >= row.transaction_date - WindowDays
        /\ df[k].transaction_date <= row.transaction_date + WindowDays}

\* STEP 2: the rows (positions in df) that can be the partner of row
Matches(df, matched_ids, row) ==
    {k \in 1..Len(df) :
        /\ df[k].id # row.id
        /\ df[k].id \notin matched_ids
        /\ df[k].source_account_id # row.source_account_id
        /\ 100 * df[k].amount >= 99 * (-row.amount)
        /\ 100 * df[k].amount <= 101 * (-row.amount)
        /\ df[k].transaction_date >= row.transaction_date - WindowDays
        /\ df[k].transaction_date <= row.transaction_date + WindowDays}

\* sort_values('date_diff').iloc[0]: a candidate of smallest date distance
ClosestByDate(df, matches, row) ==
    {k \in matches :
        \A j \in matches :
            Abs(df[k].transaction_date - row.transaction_date)
              <= Abs(df[j].transaction_date - row.transaction_date)}

\* the body of the STEP 2 loop for the row at position h.i, best_match being
\* the position of the chosen candidate
Step2Body(h, best_match) ==
    LET row == h.df[h.i]
        match_row == h.df[best_match]
    IN  IF is_related_entity_revenue(row.description, h.merchant_name)
        THEN [h EXCEPT !.df[h.i].transfer_reason = "related_entity_revenue",
                       !.i = @ + 1]
        ELSE IF \/ is_explicit_internal_transfer(row.description, h.known_account_numbers)
                \/ is_explicit_internal_transfer(match_row.description,
                                                 h.known_account_numbers)
             THEN [h EXCEPT !.df[h.i].is_internal_transfer = TRUE,
                            !.df[h.i].matched_transfer_id = match_row.id,
                            !.df[h.i].transfer_reason = "matched_amount_explicit",
                            !.df[best_match].is_internal_transfer = TRUE,
                            !.df[best_match].matched_transfer_id = row.id,
                            !.df[best_match].transfer_reason = "matched_amount_explicit",
                            !.matched_ids = @ \cup {row.id, match_row.id},
                            !.i = @ + 1]
             ELSE [h EXCEPT !.i = @ + 1]

\* longest list handed to find_inter_account_transfers
MaxHunterTxns == 3

RawTxn(amount, transaction_date, source_account_id, description, type) ==
    [amount |-> amount, transaction_date |-> transaction_date,
     source_account_id |-> source_account_id, description |-> description,
     type |-> type]

HunterTxns ==
    { RawTxn(-100, 1, "A", <<"wire", "out">>, "debit"),
      RawTxn(100,  2, "B", <<"deposit">>, "credit"),
      RawTxn(100,  1, "B", <<"intra-bank", "transfer">>, "credit"),
      RawTxn(101,  3, "B", <<"deposit">>, ""),
      RawTxn(-100, 2, "A", <<"internal", "transfer">>, "debit"),
      RawTxn(-100, 1, "B", <<"abc", "capital">>, ""),
      RawTxn(-100, 1, "A", <<"big", "world", "travel">>, "debit"),
      RawTxn(100,  4, "B", <<"online", "transfer", "from", "chk", "1234">>, "credit") }

MerchantNames == { <<>>, <<"big", "world", "enterprises">> }

KnownAccountNumbers == {"1234"}

\* the list as the caller passes it: ids are unique (the position in the list)
WithIds(raw) ==
    [k \in 1..Len(raw) |->
        [id |-> k, amount |-> raw[k].amount,
         transaction_date |-> raw[k].transaction_date,
         source_account_id |-> raw[k].source_account_id,
         description |-> raw[k].description, type |-> raw[k].type]]

HunterInit ==
    /\ hunter \in { [pc |-> "called", transactions |-> WithIds(raw), df |-> <<>>,
                     matched_ids |-> {}, i |-> 1, merchant_name |-> mn,
                     known_account_numbers |-> KnownAccountNumbers] :
                    raw \in SeqsUpTo(HunterTxns, MaxHunterTxns), mn \in MerchantNames }
    /\ verif = Idle
    /\ retry = Idle
    /\ hook = Idle
    /\ positions = Idle
    /\ norm = Idle
    /\ server = Idle

\* entry of the call up to the end of STEP 1: an empty list is returned at
\* once; otherwise the flag columns are initialised, the frame is sorted by
\* date and STEP 1 classifies every row
HunterStep1 ==
    /\ hunter.pc = "called"
    /\ IF hunter.transactions = <<>>
       THEN hunter' = [hunter EXCEPT !.pc = "done"]
       ELSE \E sorted \in SortedByDate(MapSeq(hunter.transactions, InitFlags)) :
              hunter' = [hunter EXCEPT
                  !.pc = "step2",
                  !.df = [k \in 1..Len(sorted) |->
                             Step1Row(sorted[k], hunter.known_account_numbers)],
                  !.matched_ids = Step1MatchedIds(sorted, hunter.known_account_numbers),
                  !.i = 1]
    /\ UNCHANGED <<verif, retry, hook, positions, norm, server>>

\* one iteration of the STEP 2 loop
HunterStep2 ==
    /\ hunter.pc = "step2"
    /\ hunter.i <= Len(hunter.df)
    /\ LET row     == hunter.df[hunter.i]
           matches == Matches(hunter.df, hunter.matched_ids, row)
       IN  IF row.id \in hunter.matched_ids \/ matches = {}
           THEN hunter' = [hunter EXCEPT !.i = @ + 1]
           ELSE \E best_match \in ClosestByDate(hunter.df, matches, row) :
                  hunter' = Step2Body(hunter, best_match)
    /\ UNCHANGED <<verif, retry, hook, positions, norm, server>>

\* df.to_dict('records') is returned
HunterReturn ==
    /\ hunter.pc = "step2"
    /\ hunter.i > Len(hunter.df)
    /\ hunter' = [hunter EXCEPT !.pc = "done"]
    /\ UNCHANGED <<verif, retry, hook, positions, norm, server>>

HunterNext == HunterStep1 \/ HunterStep2 \/ HunterReturn

SpecHunter == HunterInit /\ [][HunterNext]_vars

----------------------------------------------------------------------------
(* transfer_hunter.py : detect_lender_positions                            *)
(* A lender transaction is [amount, date, description, type]; amounts are   *)
(* whole dollars, monthly_payment is in cents.                              *)

\* the distinct elements of s, in the order of their first occurrence (the
\* key order of a dict filled while iterating s)
RECURSIVE Distinct(_)
Distinct(s) ==
    IF s = <<>> THEN <<>>
    ELSE LET rest == Distinct(SubSeq(s, 1, Len(s) - 1))
             last == s[Len(s)]
         IN  IF \E k \in 1..Len(rest) : rest[k] = last THEN rest ELSE Append(rest, last)

RECURSIVE Flatten(_)
Flatten(ss) == IF ss = <<>> THEN <<>> ELSE Head(ss) \o Flatten(Tail(ss))

Prefixes ==
    << <<"ach", "debit">>, <<"ach", "credit">>, <<"wire">>, <<"transfer">>,
       <<"payment", "to">>, <<"payment", "from">> >>

StartsWith(description, prefix) ==
    /\ Len(description) >= Len(prefix)
    /\ SubSeq(description, 1, Len(prefix)) = prefix

\* for prefix in prefixes: each prefix is tried once, in order
RECURSIVE StripPrefixes(_, _)
StripPrefixes(description, k) ==
    IF k > Len(Prefixes) THEN description
    ELSE StripPrefixes(IF StartsWith(description, Prefixes[k])
                       THEN SubSeq(description, Len(Prefixes[k]) + 1, Len(description))
                       ELSE description,
                       k + 1)

WordIsSignificant(w) == w \notin ShortWords

extract_lender_name(description) ==
    IF description = <<>> THEN <<"unknown", "lender">>
    ELSE LET words == StripPrefixes(description, 1)
             first4 == SubSeq(words, 1, IF Len(words) < 4 THEN Len(words) ELSE 4)
             significant_words == SelectSeq(first4, WordIsSignificant)
         IN  IF significant_words # <<>> THEN significant_words ELSE description

DateOf(txn) == txn.date

\* the thresholds on the average gap, tried against a stricter 'daily'
detect_payment_frequencyDailyWithinOneDay(transactions) ==
    LET sorted_dates == SortSeq(MapSeq(transactions, DateOf), <)
        gaps  == [i \in 1..(Len(sorted_dates) - 1) |-> sorted_dates[i + 1] - sorted_dates[i]]
        days  == SelectSeq(gaps, LAMBDA g : g > 0)
        total_days == SumSeq(days)
        count == Len(days)
    IN  IF Len(transactions) < 2 \/ count = 0 THEN "monthly"
        ELSE IF total_days <= 1 * count THEN "daily"
        ELSE IF total_days <= 10 * count THEN "weekly"
        ELSE "monthly"

\* the average taken over every consecutive pair, gaps of 0 days included
detect_payment_frequencyEveryPairCounted(transactions) ==
    LET sorted_dates == SortSeq(MapSeq(transactions, DateOf), <)
        gaps  == [i \in 1..(Len(sorted_dates) - 1) |-> sorted_dates[i + 1] - sorted_dates[i]]
        total_days == SumSeq(gaps)
        count == Len(gaps)
    IN  IF Len(transactions) < 2 \/ count = 0 THEN "monthly"
        ELSE IF total_days <= 2 * count THEN "daily"
        ELSE IF total_days <= 10 * count THEN "weekly"
        ELSE "monthly"

\* avg_days = total_days / count over the positive gaps of the sorted dates
detect_payment_frequency(transactions) ==
    LET sorted_dates == SortSeq(MapSeq(transactions, DateOf), <)
        gaps  == [i \in 1..(Len(sorted_dates) - 1) |-> sorted_dates[i + 1] - sorted_dates[i]]
        days  == SelectSeq(gaps, LAMBDA g : g > 0)
        total_days == SumSeq(days)
        count == Len(days)
    IN  IF Len(transactions) < 2 \/ count = 0 THEN "monthly"
        ELSE IF total_days <= 2 * count THEN "daily"
        ELSE IF total_days <= 10 * count THEN "weekly"
        ELSE "monthly"

PayoffKeywords ==
    { <<"payoff">>, <<"pay", "off">>, <<"refund">>, <<"settlement">>,
      <<"paid", "in", "full">> }

check_for_payoff(transactions, lender_name) ==
    \E k \in 1..Len(transactions) :
        /\ transactions[k].amount > 0
        /\ ContainsPhrase(transactions[k].description, lender_name)
        /\ \E keyword \in PayoffKeywords :
             ContainsPhrase(transactions[k].description, keyword)

\* the first loop: the debits that match a lender keyword, with the amount
\* made positive and the lender name extracted
IsLenderDebit(txn) ==
    LET is_debit == IF txn.type = "debit" THEN TRUE
                    ELSE IF txn.type = "credit" THEN FALSE
                    ELSE txn.amount < 0
    IN  /\ is_debit
        /\ is_known_lender_payment(txn.description, Abs(txn.amount),
                                   IF txn.type # "" THEN txn.type ELSE "debit")

LenderEntry(txn) ==
    [amount |-> Abs(txn.amount), date |-> txn.date, description |-> txn.description,
     lender_name |-> extract_lender_name(txn.description)]

LenderNameOf(entry) == entry.lender_name

AmountOf(entry) == entry.amount

MonthlyPaymentCents(amount, frequency) ==
    IF frequency = "daily" THEN amount * 2200
    ELSE IF frequency = "weekly" THEN amount * 433
    ELSE amount * 100

\* the positions appended for one lender
LenderPositions(lender_name, txns, min_occurrences) ==
    LET amounts == Distinct(MapSeq(txns, AmountOf))
        group(amount) == SelectSeq(txns, LAMBDA t : t.amount = amount)
        kept == SelectSeq(amounts, LAMBDA amount : Len(group(amount)) >= min_occurrences)
    IN  IF Len(txns) < min_occurrences THEN <<>>
        ELSE [k \in 1..Len(kept) |->
                LET frequency == detect_payment_frequency(group(kept[k]))
                IN  [lender_name      |-> lender_name,
                     amount           |-> kept[k],
                     frequency        |-> frequency,
                     monthly_payment  |-> MonthlyPaymentCents(kept[k], frequency),
                     occurrence_count |-> Len(group(kept[k])),
                     is_stacked       |-> Len(amounts) > 1,
                     stack_count      |-> Len(amounts)]]

detect_lender_positions(transactions, min_occurrences) ==
    LET entries == MapSeq(SelectSeq(transactions, IsLenderDebit), LenderEntry)
        lenders == Distinct(MapSeq(entries, LenderNameOf))
    IN  Flatten([k \in 1..Len(lenders) |->
                    LenderPositions(lenders[k],
                                    SelectSeq(entries, LAMBDA e : e.lender_name = lenders[k]),
                                    min_occurrences)])

\* longest free-form list handed to detect_lender_positions
MaxLenderTxns == 4

\* largest min_occurrences passed (the default is 2)
MaxMinOccurrences == 2

LTxn(type, amount, date, description) ==
    [type |-> type, amount |-> amount, date |-> date, description |-> description]

LenderTxns ==
    { LTxn("debit",  500,  0,  <<"xyz", "capital">>),
      LTxn("debit",  500,  1,  <<"ach", "debit", "xyz", "capital">>),
      LTxn("debit",  700,  2,  <<"xyz", "capital">>),
      LTxn("debit",  700,  9,  <<"xyz", "capital">>),
      LTxn("",       -300, 3,  <<"abc", "funding">>),
      LTxn("credit", 1000, 4,  <<"xyz", "capital", "payoff">>),
      LTxn("debit",  200,  5,  <<"rent">>) }

\* day numbers: day 0 is a Monday, days 5 and 6 of each week are the weekend
IsBusinessDay(day) == day % 7 < 5

RECURSIVE BusinessDaysFrom(_, _)
BusinessDaysFrom(day, n) ==
    IF n = 0 THEN <<>>
    ELSE IF IsBusinessDay(day) THEN <<day>> \o BusinessDaysFrom(day + 1, n - 1)
    ELSE BusinessDaysFrom(day + 1, n)

\* 7 debits of $500 to 'XYZ Capital' on 7 consecutive business days, the
\* first of them on weekday start
XYZRun(start) ==
    LET days == BusinessDaysFrom(start, 7)
    IN  [k \in 1..7 |-> LTxn("debit", 500, days[k], <<"xyz", "capital">>)]

Reversed(s) == [k \in 1..Len(s) |-> s[Len(s) + 1 - k]]

XYZRuns == {XYZRun(start) : start \in 0..4} \cup {Reversed(XYZRun(start)) : start \in 0..4}

\* payments of one amount a month apart, and three on one day followed by
\* one three days later
SparseRuns ==
    { << LTxn("debit", 700, 2, <<"xyz", "capital">>),
         LTxn("debit", 700, 30, <<"xyz", "capital">>) >>,
      << LTxn("debit", 500, 0, <<"xyz", "capital">>),
         LTxn("debit", 500, 0, <<"xyz", "capital">>),
         LTxn("debit", 500, 3, <<"xyz", "capital">>),
         LTxn("debit", 500, 0, <<"xyz", "capital">>) >> }

PositionsInit ==
    /\ positions \in { [pc |-> "called", transactions |-> t, min_occurrences |-> m,
                        result |-> <<>>] :
                       t \in SeqsUpTo(LenderTxns, MaxLenderTxns) \cup XYZRuns
                               \cup SparseRuns,
                       m \in 1..MaxMinOccurrences }
    /\ verif = Idle
    /\ retry = Idle
    /\ hunter = Idle
    /\ hook = Idle
    /\ norm = Idle
    /\ server = Idle

\* one call detect_lender_positions(transactions, min_occurrences)
DetectLenderPositions ==
    /\ positions.pc = "called"
    /\ positions' = [positions EXCEPT
                        !.pc = "done",
                        !.result = detect_lender_positions(positions.transactions,
                                                           positions.min_occurrences)]
    /\ UNCHANGED <<verif, retry, hunter, hook, norm, server>>

PositionsNext == DetectLenderPositions

SpecPositions == PositionsInit /\ [][PositionsNext]_vars

----------------------------------------------------------------------------
(* transfer_hunter.py : cluster_positions_by_merchant                      *)

\* amount_tolerance = 0.03, as a percentage
AmountTolerancePct == 3

\* the first loop keeps the debits of non-zero amount
IsClusterDebit(txn) ==
    LET is_debit == IF txn.type = "debit" THEN TRUE
                    ELSE IF txn.type = "credit" THEN FALSE
                    ELSE txn.amount < 0
    IN  is_debit /\ txn.amount # 0

\* the entry appended to merchant_groups[merchant] for the transaction at
\* position pos of the list (pos only traces the entry back to the input)
ClusterEntry(transactions, pos) ==
    [amount |-> Abs(transactions[pos].amount), date |-> transactions[pos].date,
     description |-> transactions[pos].description,
     merchant |-> extract_lender_name(transactions[pos].description),
     pos |-> pos]

ClusterEntries(transactions) ==
    LET all == [pos \in 1..Len(transactions) |-> ClusterEntry(transactions, pos)]
    IN  SelectSeq(all, LAMBDA e : IsClusterDebit(transactions[e.pos]))

\* abs(amt - cluster_amt) / max(cluster_amt, 1) <= amount_tolerance
WithinTolerance(amt, cluster_amt) ==
    100 * Abs(amt - cluster_amt) <= AmountTolerancePct * Max2(cluster_amt, 1)

\* the variant in which a transaction joins the cluster of nearest amount
RECURSIVE AmountClustersNearestFit(_)
AmountClustersNearestFit(txns) ==
    IF txns = <<>> THEN <<>>
    ELSE LET amount_clusters == AmountClustersNearestFit(SubSeq(txns, 1, Len(txns) - 1))
             txn  == txns[Len(txns)]
             fits == {c \in 1..Len(amount_clusters) :
                         WithinTolerance(txn.amount, amount_clusters[c].amount)}
         IN  IF fits = {}
             THEN Append(amount_clusters, [amount |-> txn.amount, transactions |-> <<txn>>])
             ELSE LET nearest == CHOOSE c \in fits : \A d \in fits :
                                    \/ Abs(txn.amount - amount_clusters[c].amount)
                                         < Abs(txn.amount - amount_clusters[d].amount)
                                    \/ /\ Abs(txn.amount - amount_clusters[c].amount)
                                            = Abs(txn.amount - amount_clusters[d].amount)
                                       /\ c <= d
                  IN  [amount_clusters EXCEPT ![nearest].transactions = Append(@, txn)]

\* amount_clusters for the entries of one merchant: each entry, in order,
\* is appended to the first cluster within tolerance (break), else it opens
\* a cluster whose 'amount' is its own
RECURSIVE AmountClusters(_)
AmountClusters(txns) ==
    IF txns = <<>> THEN <<>>
    ELSE LET amount_clusters == AmountClusters(SubSeq(txns, 1, Len(txns) - 1))
             txn  == txns[Len(txns)]
             fits == {c \in 1..Len(amount_clusters) :
                         WithinTolerance(txn.amount, amount_clusters[c].amount)}
         IN  IF fits = {}
             THEN Append(amount_clusters, [amount |-> txn.amount, transactions |-> <<txn>>])
             ELSE LET first == CHOOSE c \in fits : \A d \in fits : c <= d
                  IN  [amount_clusters EXCEPT ![first].transactions = Append(@, txn)]

MerchantOf(entry) == entry.merchant

\* merchant_groups, in key order, each with its amount_clusters; a merchant
\* with fewer than two entries is skipped
MerchantClusters(transactions) ==
    LET entries   == ClusterEntries(transactions)
        merchants == Distinct(MapSeq(entries, MerchantOf))
        txns(m)   == SelectSeq(entries, LAMBDA e : e.merchant = m)
        kept      == SelectSeq(merchants, LAMBDA m : Len(txns(m)) >= 2)
    IN  [k \in 1..Len(kept) |->
            [merchant |-> kept[k], amount_clusters |-> AmountClusters(txns(kept[k]))]]

\* the positions of one merchant: clusters of fewer than two entries are
\* skipped; no entry carries 'lender_payment', so is_lender is False
ClusterPositions(merchant, amount_clusters) ==
    LET kept == SelectSeq(amount_clusters, LAMBDA c : Len(c.transactions) >= 2)
    IN  [k \in 1..Len(kept) |->
            LET frequency == detect_payment_frequency(kept[k].transactions)
            IN  [merchant        |-> merchant,
                 amount          |-> kept[k].amount,
                 frequency       |-> frequency,
                 monthly_payment |-> MonthlyPaymentCents(kept[k].amount, frequency),
                 count           |-> Len(kept[k].transactions),
                 is_lender       |-> FALSE]]

cluster_positions_by_merchant(transactions) ==
    LET groups == MerchantClusters(transactions)
    IN  Flatten([k \in 1..Len(groups) |->
                    ClusterPositions(groups[k].merchant, groups[k].amount_clusters)])

\* longest list handed to the clustering functions
MaxClusterTxns == 4

ClusterTxns ==
    { LTxn("debit",  500,  0, <<"xyz", "capital">>),
      LTxn("debit",  512,  1, <<"xyz", "capital">>),
      LTxn("debit",  520,  2, <<"xyz", "capital">>),
      LTxn("",       -500, 3, <<"ach", "debit", "xyz", "capital">>),
      LTxn("debit",  0,    4, <<"xyz", "capital">>),
      LTxn("credit", 500,  5, <<"xyz", "capital">>),
      LTxn("debit",  505,  6, <<"rent">>) }

\* the transactions that can arrive after the first clustering
LateTxns ==
    { LTxn("debit",  512,  7, <<"xyz", "capital">>),
      LTxn("debit",  520,  8, <<"xyz", "capital">>),
      LTxn("",       -500, 9, <<"ach", "debit", "xyz", "capital">>) }

ClustersInit ==
    /\ positions \in { [pc |-> "called", transactions |-> t, groups |-> <<>>,
                        result |-> <<>>, lender_result |-> <<>>,
                        appended |-> <<>>, groups_after |-> <<>>] :
                       t \in SeqsUpTo(ClusterTxns, MaxClusterTxns) }
    /\ verif = Idle
    /\ retry = Idle
    /\ hunter = Idle
    /\ hook = Idle
    /\ norm = Idle
    /\ server = Idle

\* cluster_positions_by_merchant(transactions) (verification.py:225)
ClusterPositionsByMerchant ==
    /\ positions.pc = "called"
    /\ positions' = [positions EXCEPT
                        !.pc = "clustered",
                        !.groups = MerchantClusters(positions.transactions),
                        !.result = cluster_positions_by_merchant(positions.transactions)]
    /\ UNCHANGED <<verif, retry, hunter, hook, norm, server>>

\* detect_lender_positions(txn_list) on the same list, min_occurrences at
\* its default (pages/2_Deal_Details.py:185)
DetectOnSameList ==
    /\ positions.pc = "clustered"
    /\ positions' = [positions EXCEPT
                        !.pc = "detected",
                        !.lender_result = detect_lender_positions(positions.transactions, 2)]
    /\ UNCHANGED <<verif, retry, hunter, hook, norm, server>>

\* one more transaction arrives and the list is clustered again
ClusterAfterAppend ==
    /\ positions.pc = "detected"
    /\ \E txn \in LateTxns :
         positions' = [positions EXCEPT
                          !.pc = "appended",
                          !.appended = Append(positions.transactions, txn),
                          !.groups_after =
                              MerchantClusters(Append(positions.transactions, txn))]
    /\ UNCHANGED <<verif, retry, hunter, hook, norm, server>>

ClustersNext == ClusterPositionsByMerchant \/ DetectOnSameList \/ ClusterAfterAppend

SpecClusters == ClustersInit /\ [][ClustersNext]_vars

----------------------------------------------------------------------------
(* openai_integration.py : validate_and_sanitize_transactions              *)
(* An amount string is a sequence of one-character strings.  A parsed       *)
(* amount is the decimal number mant / 10^decimals, kept without trailing   *)
(* zeros so that equal numbers are equal records.                           *)

RECURSIVE Dec(_, _)
Dec(mant, decimals) ==
    IF mant = 0 THEN [mant |-> 0, decimals |-> 0]
    ELSE IF decimals > 0 /\ mant % 10 = 0 THEN Dec(mant \div 10, decimals - 1)
    ELSE [mant |-> mant, decimals |-> decimals]

Negated(value) == [value EXCEPT !.mant = -value.mant]

DigitChars == <<"0", "1", "2", "3", "4", "5", "6", "7", "8", "9">>

IsDigit(c) == \E k \in 1..Len(DigitChars) : DigitChars[k] = c

DigitValue(c) == (CHOOSE k \in 1..Len(DigitChars) : DigitChars[k] = c) - 1

RECURSIVE DigitsValue(_)
DigitsValue(digits) ==
    IF digits = <<>> THEN 0
    ELSE 10 * DigitsValue(SubSeq(digits, 1, Len(digits) - 1))
           + DigitValue(digits[Len(digits)])

RemoveChar(s, c) == SelectSeq(s, LAMBDA x : x # c)

ReplaceChar(s, c, by) == [k \in 1..Len(s) |-> IF s[k] = c THEN by ELSE s[k]]

CountChar(s, c) == Len(SelectSeq(s, LAMBDA x : x = c))

\* str.rindex: the last position of c in s (c occurs in s)
RIndex(s, c) == CHOOSE k \in 1..Len(s) : s[k] = c /\ \A j \in (k + 1)..Len(s) : s[j] # c

RECURSIVE Strip(_)
Strip(s) ==
    IF s # <<>> /\ s[1] = " " THEN Strip(Tail(s))
    ELSE IF s # <<>> /\ s[Len(s)] = " " THEN Strip(SubSeq(s, 1, Len(s) - 1))
    ELSE s

\* float(cleaned) on a string of the characters modelled here: an optional
\* sign, then digits with at most one '.', at least one digit.  ok = FALSE
\* is the ValueError.
ParseFloat(cleaned) ==
    LET negative == cleaned # <<>> /\ cleaned[1] = "-"
        body     == IF negative THEN Tail(cleaned) ELSE cleaned
        digits   == RemoveChar(body, ".")
        ok       == /\ CountChar(body, ".") <= 1
                    /\ digits # <<>>
                    /\ \A k \in 1..Len(digits) : IsDigit(digits[k])
        decimals == IF CountChar(body, ".") = 1 THEN Len(body) - RIndex(body, ".") ELSE 0
        value    == Dec(DigitsValue(digits), decimals)
    IN  IF ok THEN [ok |-> TRUE, value |-> IF negative THEN Negated(value) ELSE value]
        ELSE [ok |-> FALSE, value |-> Dec(0, 0)]

\* SeparatorsResolved with the European / US test of the two-separator case
\* swapped
SeparatorsResolvedSwapped(cleaned) ==
    LET has_comma  == CountChar(cleaned, ",") > 0
        has_period == CountChar(cleaned, ".") > 0
    IN  IF has_comma /\ has_period
        THEN IF RIndex(cleaned, ",") < RIndex(cleaned, ".")
             THEN ReplaceChar(RemoveChar(cleaned, "."), ",", ".")
             ELSE RemoveChar(cleaned, ",")
        ELSE IF has_comma
        THEN IF CountChar(cleaned, ",") = 1
             THEN IF Len(cleaned) - RIndex(cleaned, ",") <= 2
                  THEN ReplaceChar(cleaned, ",", ".")
                  ELSE RemoveChar(cleaned, ",")
             ELSE RemoveChar(cleaned, ",")
        ELSE IF has_period
        THEN IF CountChar(cleaned, ".") = 1 THEN cleaned ELSE RemoveChar(cleaned, ".")
        ELSE cleaned

\* "Handle different number formats": which separator is the decimal point
SeparatorsResolved(cleaned) ==
    LET has_comma  == CountChar(cleaned, ",") > 0
        has_period == CountChar(cleaned, ".") > 0
    IN  IF has_comma /\ has_period
        THEN IF RIndex(cleaned, ",") > RIndex(cleaned, ".")
             THEN ReplaceChar(RemoveChar(cleaned, "."), ",", ".")
             ELSE RemoveChar(cleaned, ",")
        ELSE IF has_comma
        THEN IF CountChar(cleaned, ",") = 1
             THEN IF Len(cleaned) - RIndex(cleaned, ",") <= 2
                  THEN ReplaceChar(cleaned, ",", ".")
                  ELSE RemoveChar(cleaned, ",")
             ELSE RemoveChar(cleaned, ",")
        ELSE IF has_period
        THEN IF CountChar(cleaned, ".") = 1 THEN cleaned ELSE RemoveChar(cleaned, ".")
        ELSE cleaned

\* the isinstance(amount_raw, str) branch
ParseAmountString(amount_raw) ==
    LET stripped == Strip(amount_raw)
        parens   == /\ stripped # <<>>
                    /\ stripped[1] = "("
                    /\ stripped[Len(stripped)] = ")"
        c1       == IF parens THEN SubSeq(stripped, 2, Len(stripped) - 1) ELSE stripped
        trailing == c1 # <<>> /\ c1[Len(c1)] = "-"
        c2       == IF trailing THEN SubSeq(c1, 1, Len(c1) - 1) ELSE c1
        leading  == c2 # <<>> /\ c2[1] = "-"
        c3       == IF leading THEN Tail(c2) ELSE c2
        is_negative == parens \/ trailing \/ leading
        c4       == RemoveChar(RemoveChar(c3, "$"), " ")
        cleaned  == SeparatorsResolved(c4)
        parsed   == ParseFloat(cleaned)
    IN  IF cleaned = <<>> THEN Dec(0, 0)
        ELSE IF ~parsed.ok THEN Dec(0, 0)
        ELSE IF is_negative THEN Negated(parsed.value) ELSE parsed.value

\* amount_raw: a str, an int / float, an int too large for a float, or
\* anything else (None, a missing key, a list ...)
AmountStr(chars) == [kind |-> "str", chars |-> chars]

AmountNum(mant, decimals) == [kind |-> "num", value |-> Dec(mant, decimals)]

AmountNone == [kind |-> "none"]

AmountBigInt == [kind |-> "bigint"]

\* the amount with float(amount_raw) negating the number
NormalizeAmountNegatesNumbers(amount_raw) ==
    IF amount_raw.kind = "num" THEN [kind |-> "num", value |-> Negated(amount_raw.value)]
    ELSE IF amount_raw.kind = "str"
    THEN [kind |-> "num", value |-> ParseAmountString(amount_raw.chars)]
    ELSE AmountNum(0, 0)

\* validated_txn['amount'] for an amount_raw on which float() does not raise
NormalizeAmount(amount_raw) ==
    IF amount_raw.kind = "num" THEN amount_raw
    ELSE IF amount_raw.kind = "str"
    THEN [kind |-> "num", value |-> ParseAmountString(amount_raw.chars)]
    ELSE AmountNum(0, 0)

\* float(amount_raw) raises OverflowError, outside the try block
AmountRaises(amount_raw) == amount_raw.kind = "bigint"

\* markers of a key that is missing and of the value None
Missing == "<missing>"

PyNone == "<None>"

\* str.lower() on the strings used here
Lower(str) ==
    IF str = "DEBIT" THEN "debit"
    ELSE IF str = "Credit" THEN "credit"
    ELSE IF str = "Payment" THEN "payment"
    ELSE str

\* str(txn.get(key, default)).lower()
StrLower(value, default) ==
    IF value = Missing THEN Lower(default)
    ELSE IF value = PyNone THEN "none"
    ELSE Lower(value)

\* descriptions are [text, len]; only the first DescriptionLimit characters
\* are kept
DescriptionLimit == 500

Description(text, len) == [text |-> text, len |-> len]

DescriptionMissing == Description(Missing, 0)

DescriptionNone == Description(PyNone, 0)

\* str(txn.get('description', 'Unknown'))[:500]
NormalizeDescription(description) ==
    IF description = DescriptionMissing THEN Description("Unknown", 7)
    ELSE IF description = DescriptionNone THEN Description("None", 4)
    ELSE [description EXCEPT !.len = IF @ > DescriptionLimit THEN DescriptionLimit ELSE @]

OptionalFields ==
    {"source_account_id", "lender_payment", "is_internal_transfer",
     "matched_transfer_id", "transfer_reason"}

\* a dict element of the list.  id, date and transaction_date are "" when
\* falsy (missing, None, '' or 0); extra tells whether the dict has keys the
\* function does not copy
Record(id, date, transaction_date, description, amount, type, category, optional, extra) ==
    [kind |-> "dict", id |-> id, date |-> date, transaction_date |-> transaction_date,
     description |-> description, amount |-> amount, type |-> type,
     category |-> category, optional |-> optional, extra |-> extra]

NonDict == [kind |-> "nondict"]

IsDict(item) == item.kind = "dict"

GeneratedId(txn_counter) == <<"txn", txn_counter>>

SentinelDate == "1900-01-01"

\* validated_txn for the dict txn, txn_counter dicts having been seen
ValidatedTxn(txn, txn_counter) ==
    Record(IF txn.id # <<>> THEN txn.id ELSE GeneratedId(txn_counter),
           IF txn.date # "" THEN txn.date
           ELSE IF txn.transaction_date # "" THEN txn.transaction_date
           ELSE SentinelDate,
           "",
           NormalizeDescription(txn.description),
           NormalizeAmount(txn.amount),
           StrLower(txn.type, "unknown"),
           StrLower(txn.category, "other"),
           txn.optional,
           FALSE)

\* the argument: None, a list, one dict, or anything else (a number, a
\* string that is not JSON ...)
ArgNone == [kind |-> "none", items |-> <<>>]

ArgList(items) == [kind |-> "list", items |-> items]

ArgDict(txn) == [kind |-> "onedict", items |-> <<txn>>]

ArgOther == [kind |-> "other", items |-> <<>>]

\* the call: [raised, value].  raised = TRUE is the OverflowError that
\* leaves the function; value is the returned list
validate_and_sanitize_transactions(transactions) ==
    LET items == IF transactions.kind \in {"list", "onedict"} THEN transactions.items
                 ELSE <<>>
        dicts == SelectSeq(items, IsDict)
    IN  IF \E k \in 1..Len(dicts) : AmountRaises(dicts[k].amount)
        THEN [raised |-> TRUE, value |-> <<>>]
        ELSE [raised |-> FALSE,
              value  |-> [k \in 1..Len(dicts) |-> ValidatedTxn(dicts[k], k)]]

\* longest amount string built from AmountAlphabet
MaxAmountLen == 4

\* longest list of records handed to the normalizer
MaxNormTxns == 2

AmountAlphabet == {"0", "1", ",", ".", "-", "(", ")", "$"}

US_1234_56 == <<"$", "1", ",", "2", "3", "4", ".", "5", "6">>

Parens_500 == <<"(", "5", "0", "0", ".", "0", "0", ")">>

TrailingMinus_1234_56 == <<"1", ",", "2", "3", "4", ".", "5", "6", "-">>

European_1234_56 == <<"1", ".", "2", "3", "4", ",", "5", "6">>

Unparseable == <<"a", "b", "c">>

AmountStrings ==
    SeqsUpTo(AmountAlphabet, MaxAmountLen)
      \cup {US_1234_56, Parens_500, TrailingMinus_1234_56, European_1234_56,
            Unparseable, <<" ", "5", " ">>, <<"1", ".", "2", "3", "4", ".", "5", "6", "7">>}

NoOptional == [f \in OptionalFields |-> PyNone]

\* a dict with nothing but an amount
AmountOnly(amount) ==
    Record(<<>>, "", "", DescriptionMissing, amount, Missing, Missing, NoOptional, FALSE)

NormRecords ==
    { Record(<<"a1">>, "2024-01-05", "", Description("wire", 600), AmountStr(Parens_500),
             "DEBIT", "Payment", [NoOptional EXCEPT !["source_account_id"] = "acct"], TRUE),
      Record(<<>>, "", "2024-02-01", DescriptionNone, AmountNone, PyNone, Missing,
             NoOptional, FALSE),
      Record(<<"txn", 1>>, "", "", DescriptionMissing, AmountNum(5, 0), "Credit", "income",
             NoOptional, TRUE),
      Record(<<>>, "", "", Description("deposit", 7), AmountStr(Unparseable), "credit",
             "other", NoOptional, FALSE),
      AmountOnly(AmountBigInt),
      NonDict }

NormArgs ==
    {ArgNone, ArgOther}
      \cup {ArgDict(r) : r \in NormRecords \ {NonDict}}
      \cup {ArgList(t) : t \in SeqsUpTo(NormRecords, MaxNormTxns)}
      \cup {ArgList(<<AmountOnly(AmountStr(chars))>>) : chars \in AmountStrings}

NotCalled == [raised |-> FALSE, value |-> <<>>]

NormInit ==
    /\ norm \in { [pc |-> "input", arg |-> a, once |-> NotCalled, twice |-> NotCalled] :
                  a \in NormArgs }
    /\ verif = Idle
    /\ retry = Idle
    /\ hunter = Idle
    /\ hook = Idle
    /\ positions = Idle
    /\ server = Idle

\* validate_and_sanitize_transactions(arg)
Normalize ==
    /\ norm.pc = "input"
    /\ norm' = [norm EXCEPT !.pc = "once",
                            !.once = validate_and_sanitize_transactions(norm.arg)]
    /\ UNCHANGED <<verif, retry, hunter, hook, positions, server>>

\* the function applied to the list it returned
NormalizeAgain ==
    /\ norm.pc = "once"
    /\ ~norm.once.raised
    /\ norm' = [norm EXCEPT
                   !.pc = "twice",
                   !.twice = validate_and_sanitize_transactions(ArgList(norm.once.value))]
    /\ UNCHANGED <<verif, retry, hunter, hook, positions, server>>

NormNext == Normalize \/ NormalizeAgain

SpecNormalize == NormInit /\ [][NormNext]_vars

----------------------------------------------------------------------------
(* webhook_server.py : two requests to incoming_email served by two threads *)
(* Each request carries one attachment [filename, content].  The threads    *)
(* share the uploads directory (disk) and the database; each has its own    *)
(* session, whose rows other sessions see once it has committed.            *)

Requests == {1, 2}

Filenames == {"statement.pdf", "scan.pdf"}

Contents == {"docA", "docB"}

\* a path of the uploads directory at which nothing has been written
NoFile == "<no file>"

\* calculate_pdf_hash: SHA-256 of the bytes read
calculate_pdf_hash(content) == <<"sha256", content>>

NoHash == <<>>

ServerInit ==
    /\ server \in
         { [disk |-> [f \in Filenames |-> NoFile],
            committed |-> {},
            req |-> [r \in Requests |->
                        [pc |-> "received", filename |-> fn[r], content |-> c[r],
                         pdf_hash |-> NoHash, account_from |-> NoFile,
                         extracted_from |-> NoFile, outcome |-> "none"]]] :
           fn \in [Requests -> Filenames], c \in [Requests -> Contents] }
    /\ verif = Idle
    /\ retry = Idle
    /\ hunter = Idle
    /\ hook = Idle
    /\ positions = Idle
    /\ norm = Idle

\* save_attachment: the content is written at uploads/<filename>
SaveAttachment(r) ==
    /\ server.req[r].pc = "received"
    /\ server' = [server EXCEPT !.disk[server.req[r].filename] = server.req[r].content,
                                !.req[r].pc = "saved"]

\* pdf_hash = calculate_pdf_hash(file_path): the file is read back
HashFile(r) ==
    /\ server.req[r].pc = "saved"
    /\ server' = [server EXCEPT
                     !.req[r].pdf_hash = calculate_pdf_hash(server.disk[server.req[r].filename]),
                     !.req[r].pc = "hashed"]

\* the query for a PDFFile with this hash, and the duplicate branch
DuplicateCheck(r) ==
    /\ server.req[r].pc = "hashed"
    /\ IF server.req[r].pdf_hash \in server.committed
       THEN server' = [server EXCEPT !.req[r].pc = "done",
                                     !.req[r].outcome = "duplicate"]
       ELSE server' = [server EXCEPT !.req[r].pc = "checked"]

\* the account number is read from the file, the Deal and the PDFFile are
\* added and flushed.  file_hash is unique: the INSERT waits for a session
\* that holds the same hash uncommitted, and fails (IntegrityError, caught by
\* the handler: rollback, HTTP 500) if the hash has been committed meanwhile
CreateRecords(r) ==
    /\ server.req[r].pc = "checked"
    /\ ~\E o \in Requests \ {r} :
          /\ server.req[o].pc \in {"created", "extracted"}
          /\ server.req[o].pdf_hash = server.req[r].pdf_hash
    /\ IF server.req[r].pdf_hash \in server.committed
       THEN server' = [server EXCEPT !.req[r].pc = "done", !.req[r].outcome = "error"]
       ELSE server' = [server EXCEPT
                          !.req[r].account_from = server.disk[server.req[r].filename],
                          !.req[r].pc = "created"]

\* extract_with_koncile(file_path): the file is opened and uploaded
ExtractWithKoncile(r) ==
    /\ server.req[r].pc = "created"
    /\ server' = [server EXCEPT
                     !.req[r].extracted_from = server.disk[server.req[r].filename],
                     !.req[r].pc = "extracted"]

\* the deal is updated and db.commit() makes the rows visible
CommitDeal(r) ==
    /\ server.req[r].pc = "extracted"
    /\ server' = [server EXCEPT !.committed = @ \cup {server.req[r].pdf_hash},
                                !.req[r].pc = "done",
                                !.req[r].outcome = "success"]

ServerStep(r) ==
    \/ SaveAttachment(r)
    \/ HashFile(r)
    \/ DuplicateCheck(r)
    \/ CreateRecords(r)
    \/ ExtractWithKoncile(r)
    \/ CommitDeal(r)

ServerNext ==
    /\ \E r \in Requests : ServerStep(r)
    /\ UNCHANGED <<verif, retry, hunter, hook, positions, norm>>

SpecServer == ServerInit /\ [][ServerNext]_vars

----------------------------------------------------------------------------
(* Pipeline: validate_and_sanitize_transactions, then the caller's loop,    *)
(* then find_inter_account_transfers (pages/3_Forensic_Trainer.py 529-540,  *)
(* webhook_server.py 156-164)                                               *)

\* the columns find_inter_account_transfers requires
RequiredCols == {"id", "amount", "transaction_date", "source_account_id"}

\* the keys of a dict: 'transaction_date' "" is a missing key, extra stands
\* for 'deal_id'
KeysOf(txn) ==
    {"id", "date", "description", "amount", "type", "category"}
      \cup {f \in OptionalFields : txn.optional[f] # PyNone}
      \cup (IF txn.transaction_date # "" THEN {"transaction_date"} ELSE {})
      \cup (IF txn.extra THEN {"deal_id"} ELSE {})

\* pd.DataFrame(transactions).columns
Columns(transactions) == UNION {KeysOf(transactions[k]) : k \in 1..Len(transactions)}

\* txn['deal_id'] = deal.id ; txn['source_account_id'] = account_number
WithSourceAccount(txn, account_number) ==
    [txn EXCEPT !.optional["source_account_id"] = account_number, !.extra = TRUE]

\* description.lower(), as the words the classifiers look for
DescriptionWords(description) ==
    CASE description.text = "Intra-bank Transfer" -> <<"intra-bank", "transfer">>
      [] description.text = "Transfer To Savings" -> <<"transfer", "to", "savings">>
      [] description.text = "ABC Capital"         -> <<"abc", "capital">>
      [] description.text = "Deposit"             -> <<"deposit">>
      [] description.text = "Unknown"             -> <<"unknown">>
      [] description.text = "None"                -> <<"none">>
      [] OTHER                                    -> <<"other">>

\* pd.to_datetime on the date strings used here, as a day number
DayNumber(date) ==
    CASE date = "2024-01-05" -> 5
      [] date = "2024-01-06" -> 6
      [] OTHER               -> 0

\* safe_float(amount), in whole dollars
Dollars(amount) == amount.value.mant \div (10 ^ amount.value.decimals)

\* a dict as a row of the matcher's frame
FrameRow(txn) ==
    [id |-> txn.id, amount |-> Dollars(txn.amount),
     transaction_date |-> DayNumber(txn.transaction_date),
     source_account_id |-> txn.optional["source_account_id"],
     description |-> DescriptionWords(txn.description), type |-> txn.type]

\* find_inter_account_transfers up to the required-column test: "done" with
\* df = <<>> is the return of [] or of the list as it was passed; otherwise
\* the call goes on with STEP 1
FindTransfersEntry(transactions) ==
    IF transactions = <<>> \/ ~(RequiredCols \subseteq Columns(transactions))
    THEN [pc |-> "done", transactions |-> transactions, df |-> <<>>,
          matched_ids |-> {}, i |-> 1, merchant_name |-> <<>>,
          known_account_numbers |-> {}]
    ELSE [pc |-> "called",
          transactions |-> [k \in 1..Len(transactions) |-> FrameRow(transactions[k])],
          df |-> <<>>, matched_ids |-> {}, i |-> 1, merchant_name |-> <<>>,
          known_account_numbers |-> {}]

\* longest list of the pipeline
MaxPipelineTxns == 3

PipelineAccounts == {"1234", "Unknown"}

PipelineRecords ==
    { Record(<<>>, "2024-01-05", "", Description("Intra-bank Transfer", 19),
             AmountNum(100, 0), "Credit", Missing, NoOptional, FALSE),
      Record(<<"a1">>, "", "2024-01-06", Description("Transfer To Savings", 19),
             AmountStr(Parens_500), "DEBIT", "other", NoOptional, TRUE),
      Record(<<"a2">>, "2024-01-05", "2024-01-05", Description("ABC Capital", 11),
             AmountStr(US_1234_56), "debit", "Payment",
             [NoOptional EXCEPT !["source_account_id"] = "9999"], FALSE),
      Record(<<>>, "2024-01-06", "", Description("Deposit", 7),
             AmountNum(100, 0), "credit", "income", NoOptional, FALSE),
      Record(<<>>, "", "", DescriptionMissing, AmountNone, Missing, Missing,
             NoOptional, FALSE),
      AmountOnly(AmountBigInt),
      NonDict }

Waiting == [pc |-> "waiting", account_number |-> "", transactions |-> <<>>, df |-> <<>>]

\* the trainer page / webhook with one statement: the extractor's list, the
\* account number read from the PDF
NormPipelineInit ==
    /\ norm \in { [pc |-> "input", arg |-> ArgList(t), once |-> NotCalled,
                   twice |-> NotCalled] :
                  t \in SeqsUpTo(PipelineRecords, MaxPipelineTxns) }
    /\ hunter \in { [Waiting EXCEPT !.account_number = a] : a \in PipelineAccounts }
    /\ verif = Idle
    /\ retry = Idle
    /\ hook = Idle
    /\ positions = Idle
    /\ server = Idle

\* the caller's loop over the normalized list and the call of the matcher
PipelineHunt ==
    /\ hunter.pc = "waiting"
    /\ norm.pc = "once"
    /\ ~norm.once.raised
    /\ hunter' = FindTransfersEntry(
                    [k \in 1..Len(norm.once.value) |->
                        WithSourceAccount(norm.once.value[k], hunter.account_number)])
    /\ UNCHANGED <<verif, retry, hook, positions, norm, server>>

\* the matcher is reached through the normalizer, or called with a list that
\* has every required column
PipelineInit == NormPipelineInit \/ HunterInit

PipelineNext == Normalize \/ PipelineHunt \/ HunterStep1 \/ HunterStep2 \/ HunterReturn

SpecPipeline == PipelineInit /\ [][PipelineNext]_vars

----------------------------------------------------------------------------
(* pages/3_Forensic_Trainer.py : the statements of one training deal       *)
(* Every saved PDF is extracted and normalized on its own; the normalized  *)
(* lists are appended to all_transactions, which is then handed to the     *)
(* matcher.                                                                *)

\* the PDFs uploaded for the deal
saved_paths == <<"january.pdf", "february.pdf">>

\* what the extractor can return for one statement
StatementRecords == {r \in NormRecords : IsDict(r)}

StatementLists == SeqsUpTo(StatementRecords, MaxNormTxns)

TrainerInit ==
    /\ norm = [pc |-> "processing", remaining |-> saved_paths, all_transactions |-> <<>>]
    /\ verif = Idle
    /\ retry = Idle
    /\ hunter = Idle
    /\ hook = Idle
    /\ positions = Idle
    /\ server = Idle

\* one round of 'for pdf_path in saved_paths':
\* all_transactions.extend(validate_and_sanitize_transactions(transactions))
TrainerPdf ==
    /\ norm.pc = "processing"
    /\ norm.remaining # <<>>
    /\ \E transactions \in StatementLists :
          LET valid_transactions == validate_and_sanitize_transactions(ArgList(transactions))
          IN  /\ ~valid_transactions.raised
              /\ norm' = [norm EXCEPT
                            !.remaining = Tail(norm.remaining),
                            !.all_transactions = norm.all_transactions \o valid_transactions.value]
    /\ UNCHANGED <<verif, retry, hunter, hook, positions, server>>

\* the normalizer's OverflowError leaves the loop
TrainerPdfRaises ==
    /\ norm.pc = "processing"
    /\ norm.remaining # <<>>
    /\ \E transactions \in StatementLists :
          validate_and_sanitize_transactions(ArgList(transactions)).raised
    /\ norm' = [norm EXCEPT !.pc = "failed"]
    /\ UNCHANGED <<verif, retry, hunter, hook, positions, server>>

\* 'if all_transactions:' txn['deal_id'] = training_deal.id for every txn,
\* then find_inter_account_transfers(all_transactions)
TrainerHunt ==
    /\ norm.pc = "processing"
    /\ norm.remaining = <<>>
    /\ norm.all_transactions # <<>>
    /\ norm' = [norm EXCEPT !.pc = "hunted"]
    /\ hunter' = FindTransfersEntry(
                    [k \in 1..Len(norm.all_transactions) |->
                        [norm.all_transactions[k] EXCEPT !.extra = TRUE]])
    /\ UNCHANGED <<verif, retry, hook, positions, server>>

TrainerNext == TrainerPdf \/ TrainerPdfRaises \/ TrainerHunt

SpecTrainer == TrainerInit /\ [][TrainerNext]_vars

----------------------------------------------------------------------------
(* The verifier's payment total on the matcher's output                    *)

\* a record of df.to_dict('records') as calculate_payment_total_from_type_field
\* reads it: the matcher's rows carry 'is_lender_payment' and have no
\* 'category' and no 'lender_payment' key, so txn.get('category', '') is ''
\* and txn.get('lender_payment', False) is False
MatcherRecord(row) ==
    Txn(row.type, row.amount, "", FALSE, row.is_internal_transfer)

MatcherOutput(df) == [k \in 1..Len(df) |-> MatcherRecord(df[k])]

\* calculate_payment_total_from_type_field(find_inter_account_transfers(...))
PaymentTotalOfMatched ==
    /\ hunter.pc = "done"
    /\ verif = Idle
    /\ verif' = [pc |-> "totalled",
                 payments |-> calculate_payment_total_from_type_field(
                                  MatcherOutput(hunter.df))]
    /\ UNCHANGED <<retry, hunter, hook, positions, norm, server>>

MatchVerifyNext == HunterStep1 \/ HunterStep2 \/ HunterReturn \/ PaymentTotalOfMatched

SpecMatchVerify == HunterInit /\ [][MatchVerifyNext]_vars

----------------------------------------------------------------------------
(* openai_integration.py : the MCA classifiers                             *)
(* Descriptions and list entries are sequences of words; the comparison is  *)
(* case-insensitive in the code (description.upper()).  The lists hold the  *)
(* entries that the descriptions used here can contain.                     *)

MCA_WHITELIST ==
    { <<"first", "capital">>, <<"fox">>, <<"ondeck">>, <<"merchant", "cash">> }

MCA_BLACKLIST ==
    { <<"capital", "one">>, <<"rent">>, <<"lease">>, <<"amex">> }

MCA_PATTERN_KEYWORDS ==
    { <<"capital">>, <<"funding">>, <<"advance">>, <<"financing">>, <<"factor">> }

OPERATING_EXPENSE_KEYWORDS ==
    { <<"amex">>, <<"insurance">>, <<"capital", "one">>, <<"card", "services">> }

MatchesAny(description, list) == \E entry \in list : ContainsPhrase(description, entry)

is_mca_whitelist(description) == MatchesAny(description, MCA_WHITELIST)

is_mca_blacklist(description) == MatchesAny(description, MCA_BLACKLIST)

has_mca_pattern_keyword(description) == MatchesAny(description, MCA_PATTERN_KEYWORDS)

is_operating_expense(description) == MatchesAny(description, OPERATING_EXPENSE_KEYWORDS)

\* is_mca_learned: the description contains a pattern stored by training
\* (the fuzzy score of a pattern it does not contain is part of fuzzy)
is_mca_learned(description, learned_patterns) == MatchesAny(description, learned_patterns)

\* fuzzy: is_mca_whitelist_fuzzy found a score >= threshold for a lender the
\* description does not contain; pattern_validates: transactions were passed
\* and is_likely_mca_pattern(transactions) holds
is_mca_position(description, learned_patterns, fuzzy, pattern_validates) ==
    IF is_mca_whitelist(description) THEN TRUE
    ELSE IF is_mca_learned(description, learned_patterns) THEN TRUE
    ELSE IF is_mca_blacklist(description) THEN FALSE
    ELSE IF fuzzy THEN TRUE
    ELSE IF has_mca_pattern_keyword(description) THEN pattern_validates
    ELSE FALSE

classify_position(description, pattern_validates) ==
    IF is_mca_blacklist(description) \/ is_operating_expense(description)
    THEN "operating_expense"
    ELSE IF is_mca_whitelist(description) THEN "mca_position"
    ELSE IF has_mca_pattern_keyword(description)
    THEN IF pattern_validates THEN "mca_position" ELSE "potential_mca"
    ELSE "other"

ClassifiedDescriptions ==
    { <<"first", "capital", "one", "card", "payment">>,
      <<"fox", "rent">>,
      <<"capital", "one", "payment">>,
      <<"ondeck", "capital">>,
      <<"abc", "funding">>,
      <<"equipment", "lease", "financing">>,
      <<"amex", "epayment">>,
      <<"payroll">> }

LearnedPatternSets == { {}, {<<"abc", "funding">>}, {<<"lease">>} }

NotClassified == "not called"

\* the returned bool, as recorded in the state
PyBool(b) == IF b THEN "True" ELSE "False"

\* a debit of a statement, the patterns training has stored, and what the
\* fuzzy matcher and the pattern validation give for it
ClassifyInit ==
    /\ positions \in { [pc |-> "debit", description |-> d, learned_patterns |-> l,
                        fuzzy |-> f, pattern_validates |-> v,
                        is_mca |-> NotClassified, class |-> NotClassified,
                        lender_payment |-> NotClassified] :
                       d \in ClassifiedDescriptions, l \in LearnedPatternSets,
                       f \in BOOLEAN, v \in BOOLEAN }
    /\ verif = Idle
    /\ retry = Idle
    /\ hunter = Idle
    /\ hook = Idle
    /\ norm = Idle
    /\ server = Idle

IsMcaPosition ==
    /\ positions.pc = "debit"
    /\ positions.is_mca = NotClassified
    /\ positions' = [positions EXCEPT !.is_mca =
                        PyBool(is_mca_position(positions.description,
                                               positions.learned_patterns, positions.fuzzy,
                                               positions.pattern_validates))]
    /\ UNCHANGED <<verif, retry, hunter, hook, norm, server>>

ClassifyPosition ==
    /\ positions.pc = "debit"
    /\ positions.class = NotClassified
    /\ positions' = [positions EXCEPT !.class =
                        classify_position(positions.description,
                                          positions.pattern_validates)]
    /\ UNCHANGED <<verif, retry, hunter, hook, norm, server>>

\* is_known_lender_payment(description, amount, 'debit')
IsKnownLenderPayment ==
    /\ positions.pc = "debit"
    /\ positions.lender_payment = NotClassified
    /\ positions' = [positions EXCEPT !.lender_payment =
                        PyBool(is_known_lender_payment(positions.description, 100, "debit"))]
    /\ UNCHANGED <<verif, retry, hunter, hook, norm, server>>

ClassifyNext == IsMcaPosition \/ ClassifyPosition \/ IsKnownLenderPayment

SpecClassify == ClassifyInit /\ [][ClassifyNext]_vars

----------------------------------------------------------------------------
(* Properties of verify_extraction_math (SpecVerify)                       *)

Verified == verif.pc = "done" /\ verif.result.checked

ClaimedPaymentsOf(d) == safe_float(d.info_needed.total_monthly_payments)

PaymentsDiscrepancy ==
    HasError(verif.result, "payments") \/ HasError(verif.result, "payments_reported_zero")

RevenueDiscrepancy == HasError(verif.result, "revenue")

\* direction of a transaction when the explicit type decides
CreditByDirection(txn) ==
    IF txn.type \in {"credit", "debit"} THEN txn.type = "credit" ELSE txn.amount > 0

RevenueTermTypeDecides(txn) ==
    IF CreditByDirection(txn) /\ ~txn.is_internal_transfer THEN Abs(txn.amount) ELSE 0

\* C8: the revenue the verifier computes is the sum of the amounts of the
\* credits that are not internal transfers, the explicit type deciding what
\* a credit is when it disagrees with the sign of the amount.
C8_RevenueTypeDecides ==
    Verified =>
        verif.result.revenue_excluding_transfers
            = SumSeq(MapSeq(verif.transactions, RevenueTermTypeDecides))

\* the tolerance rule of the claim: gap > max($1.00, 5% x max(claimed, computed))
OutsideFlooredTolerance(claimed, computed) ==
    100 * Abs(claimed - computed) > Max2(100, TolerancePct * Max2(claimed, computed))

\* C9 (as stated): a payments / revenue discrepancy is reported exactly when
\* the gap exceeds max($1.00, 5% x max(claimed, computed)).
C9_FlooredTolerance ==
    Verified =>
        /\ PaymentsDiscrepancy
             <=> OutsideFlooredTolerance(ClaimedPaymentsOf(verif.extracted_data),
                                         verif.result.calculated_payments)
        /\ RevenueChecked(verif.extracted_data, verif.result.type_analysis)
             => (RevenueDiscrepancy
                   <=> OutsideFlooredTolerance(ExtractedRevenue(verif.extracted_data),
                                               verif.result.revenue_excluding_transfers))

\* C9 (amended): payments are reported exactly when the claim is 0 and the
\* computed total is positive, or the claim is positive and the gap exceeds
\* 5% of max(claimed, computed, 1); revenue is reported exactly when it is
\* checked, the claim is positive and the gap exceeds 5% of the claim.  There
\* is no $1.00 floor.
C9_RelativeToleranceOnly ==
    Verified =>
        LET claimedP  == ClaimedPaymentsOf(verif.extracted_data)
            computedP == verif.result.calculated_payments
            claimedR  == ExtractedRevenue(verif.extracted_data)
            computedR == verif.result.revenue_excluding_transfers
        IN  /\ PaymentsDiscrepancy
                 <=> \/ claimedP = 0 /\ computedP > 0
                     \/ /\ claimedP > 0
                        /\ 100 * Abs(claimedP - computedP)
                             > 5 * Max3(claimedP, computedP, 1)
            /\ RevenueDiscrepancy
                 <=> /\ RevenueChecked(verif.extracted_data, verif.result.type_analysis)
                     /\ claimedR > 0
                     /\ 100 * Abs(claimedR - computedR) > 5 * claimedR

\* a gap of $1.00 that is reported: claimed 10, computed 11
C9_Witness ==
    /\ Verified
    /\ ClaimedPaymentsOf(verif.extracted_data) = 10
    /\ verif.result.calculated_payments = 11
    /\ HasError(verif.result, "payments")

ClaimedTenThousand == Verified /\ ClaimedPaymentsOf(verif.extracted_data) = 10000

\* C10 (as stated): claimed $10,000 passes against computed $10,499 and
\* fails against computed $10,501.
C10_FailsAt10501 ==
    ClaimedTenThousand =>
        /\ verif.result.calculated_payments = 10499 => ~PaymentsDiscrepancy
        /\ verif.result.calculated_payments = 10501 => PaymentsDiscrepancy

\* C10 (amended): claimed $10,000 passes against computed $10,499, $10,501
\* and every computed value up to $10,526; the first computed value above
\* the claim that fails is $10,527 (527 / 10527 > 5%).
C10_FailsFrom10527 ==
    ClaimedTenThousand =>
        LET computed == verif.result.calculated_payments
        IN  /\ computed \in {10499, 10501, 10526} => ~PaymentsDiscrepancy
            /\ computed = 10527 => PaymentsDiscrepancy
            /\ PaymentsDiscrepancy => computed < 9500 \/ computed >= 10527

C10_Witness ==
    /\ ClaimedTenThousand
    /\ verif.result.calculated_payments = 10501
    /\ ~PaymentsDiscrepancy

OneSided ==
    verif.result.type_analysis.is_debit_only \/ verif.result.type_analysis.is_credit_only

AvgIncomeDiscrepancy == HasError(verif.result, "data_insufficiency_average_monthly_income")

AnnualIncomeDiscrepancy == HasError(verif.result, "data_insufficiency_annual_income")

----------------------------------------------------------------------------
(* Properties of auto_retry_extraction_with_verification (SpecRetry)       *)

Returned == retry.pc = "done"

AllVerificationsFailed ==
    \A k \in 1..Len(retry.verdicts) : ~retry.verdicts[k]

\* C1: with max_retries >= 0 the controller makes at most max_retries + 1
\* extraction attempts, can always take its next step until it returns, and
\* returns a terminal status; when every verification failed it returns
\* 'Needs Human Review' after exactly max_retries + 1 attempts.
C1_BoundedAttempts ==
    retry.max_retries >= 0 =>
        /\ retry.calls <= retry.max_retries + 1
        /\ retry.calls = Len(retry.verdicts)
        /\ ~Returned => ENABLED RetryNext
        /\ Returned =>
             /\ retry.calls >= 1
             /\ retry.final_status \in {"Pending Approval", "Needs Human Review"}
             /\ AllVerificationsFailed =>
                  /\ retry.final_status = "Needs Human Review"
                  /\ retry.calls = retry.max_retries + 1

C1_Witness ==
    /\ Returned
    /\ retry.max_retries = 2
    /\ retry.calls = 3
    /\ AllVerificationsFailed
    /\ retry.final_status = "Needs Human Review"

\* C3: when the extraction of the last attempt failed (error result, no
\* transactions) the returned status is 'Needs Human Review' and the error is
\* in the returned log.
C3_ExtractorFailureNeedsReview ==
    (Returned /\ retry.calls >= 1 /\ retry.extracted_data.error) =>
        /\ retry.final_status = "Needs Human Review"
        /\ \E k \in 1..Len(retry.reasoning_log) : retry.reasoning_log[k] = "Error"

\* C4: the controller stops at the first attempt whose verification passes:
\* no attempt follows a passing one, a passing attempt returns 'Pending
\* Approval' with retry_count = the number of failed attempts before it, and
\* a passing first attempt returns with retry_count = 0 after one call.
C4_StopsAtFirstPass ==
    LET n == Len(retry.verdicts)
    IN  /\ \A k \in 1..(n - 1) : ~retry.verdicts[k]
        /\ (n >= 1 /\ retry.verdicts[n]) =>
             /\ Returned
             /\ retry.final_status = "Pending Approval"
             /\ retry.retry_count = n - 1
             /\ retry.calls = n
        /\ (n >= 1 /\ retry.verdicts[1]) =>
             /\ Returned
             /\ retry.retry_count = 0
             /\ retry.calls = 1

C4_Witness ==
    /\ Returned
    /\ retry.verdicts = <<TRUE>>
    /\ retry.extracted_data.transactions # <<>>
    /\ retry.final_status = "Pending Approval"
    /\ retry.retry_count = 0
    /\ retry.calls = 1

----------------------------------------------------------------------------
(* A deal on either path (SpecDeal): the retry controller, or the webhook  *)

DealInit == RetryInit \/ HookInit

DealNext == RetryNext \/ HookNext

SpecDeal == DealInit /\ [][DealNext]_vars

HookDone == hook.pc = "done"

LastVerdict == retry.verdicts[Len(retry.verdicts)]

\* C2 (as stated): on both paths a deal is given 'Pending Approval' only if
\* its last verification was valid, and a last verification that reported a
\* discrepancy, with no retry budget left, ends in 'Needs Human Review'.
C2_AcceptedOnlyIfValid ==
    /\ (Returned /\ retry.calls >= 1) =>
         /\ retry.final_status = "Pending Approval" => LastVerdict
         /\ ~LastVerdict => retry.final_status = "Needs Human Review"
    /\ HookDone =>
         /\ hook.final_status = "Pending Approval" => hook.verification_result.is_valid
         /\ hook.verification_result.discrepancies # <<>>
              => hook.final_status = "Needs Human Review"

\* C2 (amended): the retry path is as stated.  On the webhook path a deal is
\* given 'Pending Approval' exactly when the extraction reported no error and
\* the verification is valid or its confidence_score is at least 0.7 (one or
\* two medium-severity discrepancies, none of high severity); an invalid
\* verification of lower confidence gives 'Needs Human Review' and an
\* extraction error gives 'Extraction Failed'.
C2_AcceptedIfValidOrConfident ==
    /\ (Returned /\ retry.calls >= 1) =>
         /\ retry.final_status = "Pending Approval" => LastVerdict
         /\ ~LastVerdict => retry.final_status = "Needs Human Review"
    /\ HookDone =>
         LET v      == hook.verification_result
             high   == CountBySeverity(v.discrepancies, "high")
             medium == CountBySeverity(v.discrepancies, "medium")
         IN  /\ hook.final_status = "Pending Approval"
                  <=> /\ ~hook.extracted_data.error
                      /\ v.is_valid \/ v.confidence_score >= 70
             /\ hook.final_status = "Needs Human Review"
                  <=> /\ ~hook.extracted_data.error
                      /\ ~v.is_valid
                      /\ v.confidence_score < 70
             /\ hook.final_status = "Extraction Failed" <=> hook.extracted_data.error
             /\ (hook.final_status = "Pending Approval" /\ ~v.is_valid)
                  => high = 0 /\ medium \in {1, 2}
             /\ (high > 0 \/ medium > 2) => hook.final_status # "Pending Approval"

\* an invalid verification (two medium discrepancies) that is accepted
C2_Witness ==
    /\ HookDone
    /\ ~hook.verification_result.is_valid
    /\ Len(hook.verification_result.discrepancies) = 2
    /\ hook.final_status = "Pending Approval"

----------------------------------------------------------------------------
(* Properties of the VerificationResult of extract_with_koncile (SpecWebhook) *)

HookExtracted == hook.pc \in {"extracted", "done"}

\* C12 (as stated): every VerificationResult has is_valid = TRUE exactly
\* when its discrepancies list is empty.
C12_ValidIffNoDiscrepancies ==
    HookExtracted =>
        (hook.verification_result.is_valid
            <=> hook.verification_result.discrepancies = <<>>)

\* C12 (amended): a valid result never carries a discrepancy; a result that
\* StatementVerifier.verify computed is valid exactly when its discrepancies
\* list is empty; the result of an early return or exception handler of
\* extract_with_koncile is invalid with an empty discrepancies list,
\* confidence 0 and one warning naming the failure.
C12_ValidIffNoDiscrepanciesUnlessError ==
    HookExtracted =>
        LET v == hook.verification_result
        IN  /\ v.is_valid => v.discrepancies = <<>>
            /\ ~hook.extracted_data.error
                 => /\ v.is_valid <=> v.discrepancies = <<>>
                    /\ v = StatementVerifier_verify(hook.summary, hook.transactions)
            /\ hook.extracted_data.error
                 => /\ ~v.is_valid
                    /\ v.discrepancies = <<>>
                    /\ v.confidence_score = 0
                    /\ Len(v.warnings) = 1

\* an error return: invalid, yet no discrepancy listed
C12_Witness ==
    /\ hook.pc = "extracted"
    /\ hook.extracted_data.error
    /\ ~hook.verification_result.is_valid
    /\ hook.verification_result.discrepancies = <<>>

----------------------------------------------------------------------------
(* Properties of detect_lender_positions (SpecPositions)                   *)

PositionsDone == positions.pc = "done"

PositionRows == 1..Len(positions.result)

\* the number of Positions returned for the lender of Position k: its
\* surviving clusters
SurvivingClusters(k) ==
    Cardinality({j \in PositionRows :
                    positions.result[j].lender_name = positions.result[k].lender_name})

PayoffPresent(k) ==
    check_for_payoff(positions.transactions, positions.result[k].lender_name)

\* C13: the Positions of a lender are stacked exactly when the lender has at
\* least two surviving clusters and no payoff credit, and stack_count is the
\* number of the lender's surviving clusters.
C13_StackedIffTwoSurvivingClusters ==
    PositionsDone =>
        \A k \in PositionRows :
            /\ positions.result[k].is_stacked
                 <=> (SurvivingClusters(k) >= 2 /\ ~PayoffPresent(k))
            /\ positions.result[k].stack_count = SurvivingClusters(k)

\* C14: a payoff credit for a lender suppresses is_stacked on every Position
\* of that lender.
C14_PayoffSuppressesStacking ==
    PositionsDone =>
        \A k \in PositionRows : PayoffPresent(k) => ~positions.result[k].is_stacked

\* C15: 7 debits of $500 to 'XYZ Capital' on 7 consecutive business days,
\* whatever weekday the run starts on, give exactly one Position: Daily, 7
\* occurrences, monthly_payment 11000.00.
C15_SevenBusinessDaysDaily ==
    (PositionsDone /\ positions.transactions \in XYZRuns
                   /\ positions.min_occurrences <= 7) =>
        positions.result =
            << [lender_name      |-> <<"xyz", "capital">>,
                amount           |-> 500,
                frequency        |-> "daily",
                monthly_payment  |-> 1100000,
                occurrence_count |-> 7,
                is_stacked       |-> FALSE,
                stack_count      |-> 1] >>

\* a run that starts on a Friday and so crosses two weekends
C15_Witness ==
    /\ PositionsDone
    /\ positions.transactions = XYZRun(4)
    /\ positions.transactions[7].date - positions.transactions[1].date = 10
    /\ Len(positions.result) = 1
    /\ positions.result[1].frequency = "daily"
    /\ positions.result[1].monthly_payment = 1100000

----------------------------------------------------------------------------
(* Properties of validate_and_sanitize_transactions (SpecNormalize)        *)

Normalized == norm.pc \in {"once", "twice"}

\* the amount the call returned for the one-record list whose amount is chars
AmountOf1(chars, mant, decimals) ==
    (Normalized /\ norm.arg = ArgList(<<AmountOnly(AmountStr(chars))>>)) =>
        /\ ~norm.once.raised
        /\ Len(norm.once.value) = 1
        /\ norm.once.value[1].amount = AmountNum(mant, decimals)

\* C16: "$1,234.56", "(500.00)", "1,234.56-" and "1.234,56" are normalized
\* to 1234.56, -500.00, -1234.56 and 1234.56.
C16_BankAmountFormats ==
    /\ AmountOf1(US_1234_56, 123456, 2)
    /\ AmountOf1(Parens_500, -500, 0)
    /\ AmountOf1(TrailingMinus_1234_56, -123456, 2)
    /\ AmountOf1(European_1234_56, 123456, 2)

C16_Witness ==
    /\ norm.pc = "once"
    /\ norm.arg = ArgList(<<AmountOnly(AmountStr(European_1234_56))>>)
    /\ norm.once.value[1].amount.value = [mant |-> 123456, decimals |-> 2]

InputDicts == SelectSeq(norm.arg.items, IsDict)

\* C17: the call never raises and returns one transaction per dict record,
\* in input order; an unparseable amount string becomes 0.0 and a missing
\* date the sentinel '1900-01-01'.
C17_NeverRaises ==
    Normalized =>
        /\ ~norm.once.raised
        /\ Len(norm.once.value) = Len(InputDicts)
        /\ \A k \in 1..Len(InputDicts) :
             LET in  == InputDicts[k]
                 out == norm.once.value[k]
             IN  /\ in.id # <<>> => out.id = in.id
                 /\ in.amount = AmountStr(Unparseable) => out.amount = AmountNum(0, 0)
                 /\ (in.date = "" /\ in.transaction_date = "") => out.date = SentinelDate

\* C18: the function applied to its own output returns that output.
C18_Idempotent ==
    norm.pc = "twice" =>
        /\ ~norm.twice.raised
        /\ norm.twice.value = norm.once.value

\* a list the first pass changed (ids generated, a non-dict dropped, amounts
\* parsed) and the second pass left alone
C18_Witness ==
    /\ norm.pc = "twice"
    /\ Len(norm.arg.items) = 2
    /\ Len(norm.once.value) = 1
    /\ norm.once.value[1] # InputDicts[1]
    /\ norm.once.value[1].amount.value.mant # 0
    /\ norm.twice.value = norm.once.value

----------------------------------------------------------------------------
(* Properties of two concurrent requests (SpecServer)                      *)

AllDone == \A r \in Requests : server.req[r].pc = "done"

\* request r was processed from its own document alone
ProcessedOwnDocument(r) ==
    /\ server.req[r].outcome = "success"
    /\ server.req[r].pdf_hash = calculate_pdf_hash(server.req[r].content)
    /\ server.req[r].account_from = server.req[r].content
    /\ server.req[r].extracted_from = server.req[r].content

\* what the two requests give when first is served to completion before
\* second starts
AsIfSerial(first, second) ==
    /\ ProcessedOwnDocument(first)
    /\ IF server.req[second].content = server.req[first].content
       THEN server.req[second].outcome = "duplicate"
       ELSE ProcessedOwnDocument(second)

\* C19: under every interleaving of two requests each deal is processed
\* from its own document alone, with the result of serving the two requests
\* one after the other.
C19_NoSharedMutableState ==
    AllDone => (AsIfSerial(1, 2) \/ AsIfSerial(2, 1))

----------------------------------------------------------------------------
(* Properties of find_inter_account_transfers (SpecHunter)                 *)

HunterDone == hunter.pc = "done"

Rows == 1..Len(hunter.df)

Explicit(k) ==
    is_explicit_internal_transfer(hunter.df[k].description, hunter.known_account_numbers)

Related(k) == is_related_entity_revenue(hunter.df[k].description, hunter.merchant_name)

\* row c is a credit within 1% and within the window of debit d, on another
\* account
Compatible(d, c) ==
    /\ d # c
    /\ hunter.df[d].amount < 0
    /\ hunter.df[c].amount > 0
    /\ hunter.df[c].source_account_id # hunter.df[d].source_account_id
    /\ 100 * hunter.df[c].amount >= 99 * (-hunter.df[d].amount)
    /\ 100 * hunter.df[c].amount <= 101 * (-hunter.df[d].amount)
    /\ Abs(hunter.df[c].transaction_date - hunter.df[d].transaction_date) <= WindowDays

\* row k is marked internal and symmetrically linked to a partner
Paired(k) ==
    /\ hunter.df[k].is_internal_transfer
    /\ \E j \in Rows \ {k} :
         /\ hunter.df[k].matched_transfer_id = hunter.df[j].id
         /\ hunter.df[j].matched_transfer_id = hunter.df[k].id
         /\ hunter.df[j].is_internal_transfer

\* Supporting fact: no call ever sets a matched_transfer_id.  Every row with
\* an explicit description enters matched_ids in STEP 1, so STEP 2 neither
\* visits it nor offers it as a candidate, and the test "description or
\* match_desc is explicit" that guards the marking is never true.
Step2NeverMarks ==
    \A k \in Rows : hunter.df[k].matched_transfer_id = NoneId

\* C6: no transaction id is the matched_transfer_id of more than one
\* transaction, and a transaction classified in the explicit pass is out of
\* the candidate pool: it is nobody's partner and has no partner.
C6_NoDoubleMatch ==
    /\ \A a, b \in Rows :
         (a # b /\ hunter.df[a].matched_transfer_id # NoneId)
            => hunter.df[a].matched_transfer_id # hunter.df[b].matched_transfer_id
    /\ \A k \in Rows :
         Explicit(k) =>
            /\ hunter.df[k].id \in hunter.matched_ids
            /\ hunter.df[k].matched_transfer_id = NoneId
            /\ \A j \in Rows : hunter.df[j].matched_transfer_id # hunter.df[k].id

\* an explicit credit that two ordinary debits could both have taken
C6_Witness ==
    /\ HunterDone
    /\ \E e, d1, d2 \in Rows :
         /\ d1 # d2
         /\ Explicit(e)
         /\ Compatible(d1, e) /\ ~Explicit(d1) /\ ~Related(d1)
         /\ Compatible(d2, e) /\ ~Explicit(d2) /\ ~Related(d2)
         /\ hunter.df[e].is_internal_transfer
         /\ hunter.df[e].matched_transfer_id = NoneId

\* C7: when the call returns, no debit and compatible credit (different
\* account, within 1% and within the window, neither classified in the
\* explicit pass, no related-entity override) are both left unmatched: one of
\* them is marked internal and symmetrically linked to its partner.
C7_AmountMatchMarksPair ==
    HunterDone =>
        \A d, c \in Rows :
            (Compatible(d, c) /\ ~Explicit(d) /\ ~Explicit(c) /\ ~Related(d))
                => Paired(d) \/ Paired(c)

\* C23: a row whose description is an explicit transfer phrase is marked
\* internal by the first pass, keeps matched_transfer_id unset and is no
\* row's partner; a row with no explicit phrase that is not amount-matched
\* stays is_internal_transfer = FALSE.
C23_ExplicitPassIsTerminal ==
    \A k \in Rows :
        /\ Explicit(k) =>
              /\ hunter.df[k].is_internal_transfer
              /\ hunter.df[k].transfer_reason = "explicit_transfer_description"
              /\ hunter.df[k].matched_transfer_id = NoneId
              /\ \A j \in Rows : hunter.df[j].matched_transfer_id # hunter.df[k].id
        /\ (~Explicit(k) /\ hunter.df[k].matched_transfer_id = NoneId)
              => ~hunter.df[k].is_internal_transfer

\* a returned frame with an explicit credit that an ordinary debit could
\* have taken as its partner, the debit left unmarked
C23_Witness ==
    /\ HunterDone
    /\ \E e, d \in Rows :
         /\ Explicit(e) /\ ~Explicit(d) /\ ~Related(d)
         /\ Compatible(d, e)
         /\ hunter.df[e].is_internal_transfer
         /\ ~hunter.df[d].is_internal_transfer
         /\ hunter.df[d].matched_transfer_id = NoneId

----------------------------------------------------------------------------
(* Properties of the pipeline (SpecPipeline)                               *)

\* the matcher has returned in a run that went through the normalizer
PipelineReturned == norm.pc = "once" /\ hunter.pc = "done"

\* the matcher returned the list it was passed, no flag column added
ReturnedUnannotated ==
    /\ hunter.df = <<>>
    /\ hunter.transactions # <<>>

\* C21: a list produced by the normalizer and given a source_account_id is
\* processed by the matcher: it is never returned unannotated, and each of
\* its transactions with an explicit transfer description comes back with
\* is_internal_transfer = TRUE.
C21_NormalizedListIsAnnotated ==
    PipelineReturned =>
        /\ ~ReturnedUnannotated
        /\ Len(hunter.df) = Len(norm.once.value)
        /\ \A k \in 1..Len(hunter.df) :
              is_explicit_internal_transfer(hunter.df[k].description, {})
                 => hunter.df[k].is_internal_transfer

----------------------------------------------------------------------------
(* Properties of the payment total on the matcher's output (SpecMatchVerify) *)

\* the row is a debit: type field first, amount sign as the fallback
RowIsDebit(row) ==
    IF row.type = "debit" THEN TRUE
    ELSE IF row.type = "credit" THEN FALSE
    ELSE row.amount < 0

\* magnitude of a debit the matcher flagged as a lender payment
FlaggedLenderTerm(row) ==
    IF RowIsDebit(row) /\ row.is_lender_payment THEN Abs(row.amount) ELSE 0

\* C22: the payment total computed on the matcher's output includes every
\* debit the matcher flagged as a lender payment (the rows carry no payment
\* category, so the total is the sum of the flagged debits' magnitudes).
C22_FlaggedLenderDebitsCounted ==
    verif.pc = "totalled" =>
        verif.payments =
            SumSeq([k \in 1..Len(hunter.df) |-> FlaggedLenderTerm(hunter.df[k])])

----------------------------------------------------------------------------
(* Properties of the two clustering functions (SpecClusters)               *)

\* first-fit by tolerance: a cluster's amount is its first member's, the
\* members are in input order, each within tolerance of its own cluster's
\* amount and of no earlier cluster's amount
FirstFit(amount_clusters) ==
    \A c \in 1..Len(amount_clusters) :
        LET cl == amount_clusters[c]
        IN  /\ cl.transactions # <<>>
            /\ cl.amount = cl.transactions[1].amount
            /\ \A m \in 1..Len(cl.transactions) :
                  /\ WithinTolerance(cl.transactions[m].amount, cl.amount)
                  /\ \A n \in 1..(m - 1) : cl.transactions[n].pos < cl.transactions[m].pos
                  /\ \A b \in 1..(c - 1) :
                        ~WithinTolerance(cl.transactions[m].amount, amount_clusters[b].amount)

\* where the transaction at position pos of the input was put: merchant,
\* cluster number and cluster amount
PlaceOf(groups, pos) ==
    UNION { { <<groups[g].merchant, c, groups[g].amount_clusters[c].amount>> :
                c \in {d \in 1..Len(groups[g].amount_clusters) :
                         \E m \in 1..Len(groups[g].amount_clusters[d].transactions) :
                            groups[g].amount_clusters[d].transactions[m].pos = pos} } :
            g \in 1..Len(groups) }

Clustered == positions.pc \in {"clustered", "detected", "appended"}

\* the lender debits of the list that carry the name of position p
LenderEntriesOf(p) ==
    SelectSeq(MapSeq(SelectSeq(positions.transactions, IsLenderDebit), LenderEntry),
              LAMBDA e : e.lender_name = p.lender_name)

LenderRows == {positions.lender_result[k] : k \in 1..Len(positions.lender_result)}

\* cluster_positions_by_merchant clusters first-fit, and appending a
\* transaction leaves every earlier transaction where it was
ByMerchantIsFirstFitAndStable ==
    /\ Clustered =>
          \A g \in 1..Len(positions.groups) : FirstFit(positions.groups[g].amount_clusters)
    /\ positions.pc = "appended" =>
          /\ \A g \in 1..Len(positions.groups_after) :
                FirstFit(positions.groups_after[g].amount_clusters)
          /\ \A pos \in 1..Len(positions.transactions) :
                PlaceOf(positions.groups, pos) # {}
                   => PlaceOf(positions.groups_after, pos) = PlaceOf(positions.groups, pos)

\* C24 as stated: both functions cluster first-fit within the 3% tolerance,
\* so the stack_count of a lender's positions is the number of first-fit
\* clusters of that lender's debits.
C24_BothFunctionsFirstFit ==
    /\ ByMerchantIsFirstFitAndStable
    /\ \A p \in LenderRows : p.stack_count = Len(AmountClusters(LenderEntriesOf(p)))

\* C24 (amended): cluster_positions_by_merchant is greedy first-fit within
\* 3% of the first member's amount and stable under appending;
\* detect_lender_positions applies no tolerance: it groups a lender's debits
\* by equal amount, one group per distinct amount.
C24_FirstFitByMerchantExactByLender ==
    /\ ByMerchantIsFirstFitAndStable
    /\ \A p \in LenderRows :
          LET amounts == {LenderEntriesOf(p)[k].amount : k \in 1..Len(LenderEntriesOf(p))}
          IN  /\ p.stack_count = Cardinality(amounts)
              /\ p.occurrence_count =
                    Len(SelectSeq(LenderEntriesOf(p), LAMBDA e : e.amount = p.amount))
              /\ \A q \in LenderRows :
                    (q.lender_name = p.lender_name /\ q.amount = p.amount) => q = p

\* a merchant with two clusters, one member of the first also within
\* tolerance of the second, a transaction appended into an existing
\* cluster, and a lender position counting more amount groups than there
\* are tolerance clusters
C24_Witness ==
    /\ positions.pc = "appended"
    /\ \E g \in 1..Len(positions.groups) :
          LET cs == positions.groups[g].amount_clusters
          IN  /\ Len(cs) = 2
              /\ \E m \in 1..Len(cs[1].transactions) :
                    /\ cs[1].transactions[m].amount # cs[1].amount
                    /\ WithinTolerance(cs[1].transactions[m].amount, cs[2].amount)
              /\ \E p \in LenderRows : p.stack_count > Len(cs)
    /\ PlaceOf(positions.groups_after, Len(positions.appended)) # {}
    /\ positions.groups_after # positions.groups

----------------------------------------------------------------------------
(* Frequency of the returned Positions (SpecPositions)                     *)

\* the dates of the debits grouped into Position k: the lender's debits of
\* the Position's amount
GroupDates(k) ==
    LET entries == MapSeq(SelectSeq(positions.transactions, IsLenderDebit), LenderEntry)
        group   == SelectSeq(entries, LAMBDA e :
                      /\ e.lender_name = positions.result[k].lender_name
                      /\ e.amount = positions.result[k].amount)
    IN  [j \in 1..Len(group) |-> group[j].date]

DateSet(k) == {GroupDates(k)[j] : j \in 1..Len(GroupDates(k))}

\* last date minus first date: the sum of the gaps between consecutive dates
DateSpan(k) ==
    LET first == CHOOSE d \in DateSet(k) : \A e \in DateSet(k) : d <= e
        last  == CHOOSE d \in DateSet(k) : \A e \in DateSet(k) : d >= e
    IN  last - first

\* frequency for an average gap of span / pairs days
FrequencyOfAverage(span, pairs) ==
    IF pairs = 0 THEN "monthly"
    ELSE IF span <= 2 * pairs THEN "daily"
    ELSE IF span <= 10 * pairs THEN "weekly"
    ELSE "monthly"

MonthlyPaymentMatches(k) ==
    positions.result[k].monthly_payment =
        CASE positions.result[k].frequency = "daily"   -> 2200 * positions.result[k].amount
          [] positions.result[k].frequency = "weekly"  -> 433 * positions.result[k].amount
          [] positions.result[k].frequency = "monthly" -> 100 * positions.result[k].amount

\* C25 as stated: the frequency of a Position of at least two transactions
\* follows the average over every consecutive pair of its sorted dates
\* (at most 2 days Daily, at most 10 Weekly, else Monthly), and
\* monthly_payment is amount x 22, x 4.33 or x 1.
C25_AverageOverEveryPair ==
    \A k \in PositionRows :
        Len(GroupDates(k)) >= 2 =>
            /\ positions.result[k].frequency =
                  IF DateSpan(k) <= 2 * (Len(GroupDates(k)) - 1) THEN "daily"
                  ELSE IF DateSpan(k) <= 10 * (Len(GroupDates(k)) - 1) THEN "weekly"
                  ELSE "monthly"
            /\ MonthlyPaymentMatches(k)

\* C25 (amended): the average is taken over the consecutive pairs that are
\* at least one day apart, that is over the gaps between the distinct dates;
\* a Position whose transactions all have one date is Monthly.
C25_AverageOverPositiveGaps ==
    \A k \in PositionRows :
        /\ positions.result[k].frequency =
              FrequencyOfAverage(DateSpan(k), Cardinality(DateSet(k)) - 1)
        /\ MonthlyPaymentMatches(k)

\* returned Positions of each frequency, one of them weekly although the
\* average over every pair is at most 2 days, or monthly with one date only
C25_Witness ==
    /\ PositionsDone
    /\ \E k \in PositionRows :
          /\ Cardinality(DateSet(k)) < Len(GroupDates(k))
          /\ DateSpan(k) <= 2 * (Len(GroupDates(k)) - 1)
          /\ positions.result[k].frequency \in {"weekly", "monthly"}

----------------------------------------------------------------------------
(* Properties of the MCA classifiers (SpecClassify)                        *)

\* the description matches an allow-list term (whitelist or lender keyword)
\* and a deny-list term
AllowAndDeny ==
    /\ \/ is_mca_whitelist(positions.description)
       \/ MatchesAny(positions.description, KNOWN_LENDER_KEYWORDS)
    /\ is_mca_blacklist(positions.description)

\* C26: a debit whose description matches both an allow-list term and a
\* deny-list term is classified as an MCA position or lender payment by none
\* of the classifiers.
C26_DenyListWins ==
    AllowAndDeny =>
        /\ positions.is_mca # "True"
        /\ positions.class # "mca_position"
        /\ positions.lender_payment # "True"

----------------------------------------------------------------------------
(* Severity and confidence of StatementVerifier.verify (SpecWebhook)       *)

ReportedDiscrepancies ==
    {hook.verification_result.discrepancies[i] :
        i \in 1..Len(hook.verification_result.discrepancies)}

DollarFields == {"Total Deposits", "Total Withdrawals", "Total Checks"}

CountFields == {"Deposits Count", "Transaction Count"}

\* C27: a discrepancy on a dollar-amount field is 'high' exactly when the
\* absolute gap exceeds $100 and 'medium' otherwise; a discrepancy on a count
\* field is 'high'.
C27_SeverityByGap ==
    \A d \in ReportedDiscrepancies :
        /\ d.field \in DollarFields =>
              d.severity = (IF Abs(d.difference) > HighSeverityGap THEN "high"
                            ELSE "medium")
        /\ d.field \in CountFields => d.severity = "high"

\* the state holds a result of StatementVerifier.verify
Verifies == HookExtracted /\ ~hook.extracted_data.error

HighOnes ==
    SelectSeq(hook.verification_result.discrepancies, LAMBDA d : d.severity = "high")

MediumOnes ==
    SelectSeq(hook.verification_result.discrepancies, LAMBDA d : d.severity = "medium")

\* C28 as stated: the score is 100 (hundredths) without discrepancies, lies
\* in 0..100, and every discrepancy lowers it until the floor 0: a result
\* with medium discrepancies next to high ones scores less than the high
\* ones alone would, and a medium one costs less than a high one.
C28_PenaltyGrowsWithBothCounts ==
    Verifies =>
        /\ hook.verification_result.confidence_score \in 0..100
        /\ hook.verification_result.discrepancies = <<>>
              => hook.verification_result.confidence_score = 100
        /\ (MediumOnes # <<>> /\ Confidence(HighOnes) > 0)
              => hook.verification_result.confidence_score < Confidence(HighOnes)

\* C28 (amended): the score is 100 without discrepancies and lies in 0..100;
\* with h >= 1 high discrepancies it is max(0, 50 - 15 h) whatever the number
\* of medium ones; with no high and m >= 1 medium ones it is
\* max(50, 90 - 10 m); an empty transaction list scores 0.
C28_PiecewiseConfidence ==
    Verifies =>
        /\ hook.verification_result.confidence_score \in 0..100
        /\ hook.verification_result.confidence_score =
              IF hook.transactions = <<>> THEN 0
              ELSE IF HighOnes # <<>> THEN Max2(0, 50 - 15 * Len(HighOnes))
              ELSE IF MediumOnes # <<>> THEN Max2(50, 90 - 10 * Len(MediumOnes))
              ELSE 100

\* a result with a high and a medium discrepancy, scored as the high one
\* alone
C28_Witness ==
    /\ Verifies
    /\ hook.transactions # <<>>
    /\ Len(HighOnes) = 1
    /\ Len(MediumOnes) >= 1
    /\ hook.verification_result.confidence_score = 35

\* the transactions of the training deal, once at least one statement has
\* been normalized
DealTransactions == IF norm.pc \in {"processing", "hunted"} THEN norm.all_transactions ELSE <<>>

\* C29: every normalized transaction of a deal has an id, and no two
\* transactions of the deal share one, whether they come from one statement
\* or from statements normalized one after the other.
C29_IdsUniqueWithinDeal ==
    \A j, k \in 1..Len(DealTransactions) :
        /\ DealTransactions[k].id # <<>>
        /\ j # k => DealTransactions[j].id # DealTransactions[k].id

PollingReturned == hook.pc = "returned"

\* a round of the loop is taken only while the status is 'IN PROGRESS' and
\* the time is short of max_poll_seconds
PollsOnlyWhileInProgress ==
    [][hook'.poll_count > hook.poll_count => KeepsPolling(hook)]_vars

\* rounds start short of max_poll_seconds and take at least SleepSeconds
PollsAreBounded ==
    hook.poll_count > 0 => (hook.poll_count - 1) * SleepSeconds < hook.max_poll_seconds

\* a return without a completed status is the structured error result
IncompleteIsStructuredError ==
    (PollingReturned /\ hook.status \notin CompletedStatuses) =>
        /\ hook.extracted_data.error
        /\ hook.extracted_data.transactions = <<>>
        /\ ~hook.verification_result.is_valid

====
